---- MODULE Spec2Model ----
(***************************************************************************)
(* Placement engine of nextpnr: the constraint pass and the heuristic      *)
(* placer of common/place.cc (place_design_heuristic, place_cell) and the  *)
(* type-batched placer place_design, over a small device catalog and a     *)
(* small netlist.                                                          *)
(***************************************************************************)
EXTENDS Integers, Sequences, FiniteSets, TLC

VARIABLES
    cellType,     \* CellInfo::type of every cell
    clock,        \* clock domain of every cell (input of the design-rule check)
    inNet,        \* net on the input port of every cell (0: unconnected)
    loadedBEL,    \* attrs["BEL"] of every cell as the netlist was loaded
    attrBEL,      \* CellInfo::attrs["BEL"] of every cell
    bel,          \* CellInfo::bel of every cell
    belStrength,  \* CellInfo::belStrength of every cell
    bel_to_cell,  \* binding store: the cell bound to every bel
    pc,           \* position of the running placer
    idx,          \* position of the loop over design->cells
    visit_cells,  \* queue of the cells placed by the constraint pass
    autoplaced,   \* set of the cells placed by place_cell in the seeding loop
    autoOrder,    \* order in which the unordered set autoplaced is iterated
    pass,         \* counter i of the improvement passes
    pos,          \* position of the loop over autoplaced
    types_used,   \* place_design: the cell types still to be placed
    ti,           \* place_design: position of the loop over types_used
    bi,           \* place_design: the bel cursor of the current type
    err,          \* the error raised, "none" while the placer runs
    wire_to_net,  \* binding store: the net bound to every wire
    pip_to_net,   \* binding store: the net bound to every pip
    net_wires,    \* NetInfo::wires of every net: wire -> {pip, strength}
    cellName,     \* CellInfo::name of the cell stored under every key of cells
    netName,      \* NetInfo::name of the net stored under every key of nets
    netDriver,    \* NetInfo::driver.cell of every net (its port is O)
    netUsers,     \* NetInfo::users of every net: <<cell, input port>> entries
    edits,        \* number of writes made to the design past the binding store
    idstring_str_to_idx,  \* BaseCtx: the index of every interned string
    idstring_idx_to_str,  \* BaseCtx: the interned strings, index i at i + 1
    force,        \* BaseCtx::force
    netAttrs,     \* NetInfo::attrs of every net: key index -> bytes
    cellAttrs,    \* CellInfo::attrs of every cell but "BEL": key index -> bytes
    params,       \* CellInfo::params of every cell: key index -> bytes
    pins,         \* CellInfo::pins of every cell: port index -> pin index
    op            \* the call of the binding store or the interner made last

vars == <<cellType, clock, inNet, loadedBEL, attrBEL, bel, belStrength,
          bel_to_cell, pc, idx, visit_cells, autoplaced, autoOrder, pass, pos,
          types_used, ti, bi, err, wire_to_net, pip_to_net, net_wires,
          cellName, netName, netDriver, netUsers, edits, idstring_str_to_idx,
          idstring_idx_to_str, force, netAttrs, cellAttrs, params, pins, op>>

----------------------------------------------------------------------------
(* Bounds of the model *)

NumCells == 3
NumBels == 4

\* the routing graph
NumWires == 3
NumPips == 3

\* the writes made to the design past the binding store before check()
MaxEdits == 3

\* the larger design the improvement passes are also run on
WideCells == 6
WideBels == 9

\* the cells of the loaded design (design->cells) and the bels of the chip
Cells == DOMAIN cellType
Bels == DOMAIN bel_to_cell

\* the last cell in the iteration order of design->cells
LastCell == Cardinality(Cells)

\* BelId() and the null cell name IdString()
NullBel == 0
NullCell == 0

----------------------------------------------------------------------------
(* Architecture catalog: tiles in a row, each a slice of two LUTs and a FF *)

BelTypes == {"LUT", "FF"}
TYPE_NONE == "NONE"

getBels == [i \in Bels |-> i]

getBelType(b) == IF (b - 1) % 3 = 2 THEN "FF" ELSE "LUT"

belTypeFromId(id) == IF id \in BelTypes THEN id ELSE TYPE_NONE

\* estimatePosition: the centre of the bel, x the tile and y the slot in it
belX(b) == (b - 1) \div 3
belY(b) == (b - 1) % 3

\* bel names are "X<x>Y<y>/<type>"
getBelName(b) == <<belX(b), belY(b), getBelType(b)>>

getBelByName(name) ==
    IF \E b \in Bels : getBelName(b) = name
    THEN CHOOSE b \in Bels : getBelName(b) = name
    ELSE NullBel

Abs(n) == IF n < 0 THEN -n ELSE n

\* std::abs(belx - otherx) + std::abs(bely - othery)
Distance(b, o) == Abs(belX(b) - belX(o)) + Abs(belY(b) - belY(o))

\* the routing graph: pip p < NumWires from wire p to wire p + 1; the pips
\* from NumWires on are antiparallel to the first pips (a bi-directional
\* switch is two antiparallel pips)
Wires == 1..NumWires
Pips == 1..NumPips

\* WireId(), PipId() and the null net name IdString()
NullWire == 0
NullPip == 0
NullNet == 0

getPipSrcWire(p) == IF p < NumWires THEN p ELSE p - NumWires + 2
getPipDstWire(p) == IF p < NumWires THEN p + 1 ELSE p - NumWires + 1

----------------------------------------------------------------------------
(* Netlist: every cell has an output port O driving the net of its own     *)
(* name and input ports I0, I1, ..., port Ik reading net inNet[c][k+1].    *)

\* DSP: a cell type the chip has no bel for
CellTypes == {"LUT", "FF", "DSP"}
Clocks == {"clkA", "clkB"}

NoAttr == <<>>
UnknownName == <<0, 0, "IO">>
AttrValues == {getBelName(b) : b \in Bels} \cup {UnknownName}

\* the cells the user may pin with a BEL attribute
Pinnable == {1, 2}

\* no nets; a chain 1 -> 2 -> ...; cell 1 driving one, two or three inputs
\* of every other cell
NetNone == [c \in Cells |-> <<>>]
NetChain == [c \in Cells |-> IF c = 1 THEN <<>> ELSE <<c - 1>>]
NetStar == [c \in Cells |-> IF c = 1 THEN <<>> ELSE <<1>>]
NetFan2 == [c \in Cells |-> IF c = 1 THEN <<>> ELSE <<1, 1>>]
NetFan3 == [c \in Cells |-> IF c = 1 THEN <<>> ELSE <<1, 1, 1>>]
Netlists == {NetNone, NetChain, NetStar, NetFan2, NetFan3}

\* every cell on one clock, or the cells alternating between two
ClockPlans ==
    {[c \in Cells |-> "clkA"],
     [c \in Cells |-> IF c % 2 = 1 THEN "clkA" ELSE "clkB"]}

\* NetInfo::driver.cell of net n
Driver(n) == n

\* NetInfo::users of net n, in declared order: one entry per input port
RECURSIVE UsersFrom(_, _, _)
UsersFrom(net, n, c) ==
    IF c > LastCell THEN <<>>
    ELSE [k \in 1..Cardinality({j \in DOMAIN net[c] : net[c][j] = n}) |-> c]
         \o UsersFrom(net, n, c + 1)

Users(net, n) == UsersFrom(net, n, 1)

\* NetInfo::users of net n as port references <<cell, input port>>
RECURSIVE PortRefsFrom(_, _, _)
PortRefsFrom(net, n, c) ==
    IF c > LastCell THEN <<>>
    ELSE SelectSeq([k \in DOMAIN net[c] |-> <<c, k>>],
                   LAMBDA r : net[c][r[2]] = n)
         \o PortRefsFrom(net, n, c + 1)

PortRefs(net, n) == PortRefsFrom(net, n, 1)

\* the nets on the ports of cell c, one entry per connected port
PortNets(net, c) == net[c] \o <<c>>

----------------------------------------------------------------------------
(* Binding store.  place.cc calls bindBel(bel, cell->name) with no         *)
(* strength argument: the binding it makes carries no strength.            *)

Strength == {"NONE", "WEAK", "STRONG", "PLACER", "USER"}

StrengthRank(s) ==
    CASE s = "NONE" -> 0
      [] s = "WEAK" -> 1
      [] s = "STRONG" -> 2
      [] s = "PLACER" -> 3
      [] s = "USER" -> 4

\* the strength of a bindBel call that names none
NoStrength == "NONE"

\* the mutable part of the design, as the placer's functions see it
Ctx ==
    [bel |-> bel, belStrength |-> belStrength, bel_to_cell |-> bel_to_cell,
     attrBEL |-> attrBEL, err |-> err]

Raise(st, e) == [st EXCEPT !.err = e]

getBoundBelCell(st, b) == st.bel_to_cell[b]

checkBelAvail(st, b) == st.bel_to_cell[b] = NullCell

\* bindBel letting a binding of equal strength displace the one in place
bindBel_equal_displaces(st, b, c, s) ==
    LET old == st.bel_to_cell[b] IN
    IF old # NullCell /\ StrengthRank(st.belStrength[old]) > StrengthRank(s)
    THEN Raise(st, "AlreadyBound")
    ELSE [st EXCEPT
            !.bel = [x \in Cells |->
                        IF x = c THEN b
                        ELSE IF x = old THEN NullBel ELSE st.bel[x]],
            !.belStrength = [x \in Cells |->
                        IF x = c THEN s
                        ELSE IF x = old THEN "NONE" ELSE st.belStrength[x]],
            !.bel_to_cell[b] = c]

\* fails with AlreadyBound when the bel is bound at >= strength; a weaker
\* binding is evicted; sets the store entry, cell.bel and cell.belStrength
bindBel(st, b, c, s) ==
    LET old == st.bel_to_cell[b] IN
    IF old # NullCell /\ StrengthRank(st.belStrength[old]) >= StrengthRank(s)
    THEN Raise(st, "AlreadyBound")
    ELSE [st EXCEPT
            !.bel = [x \in Cells |->
                        IF x = c THEN b
                        ELSE IF x = old THEN NullBel ELSE st.bel[x]],
            !.belStrength = [x \in Cells |->
                        IF x = c THEN s
                        ELSE IF x = old THEN "NONE" ELSE st.belStrength[x]],
            !.bel_to_cell[b] = c]

\* unbindBel clearing the cell's side only
unbindBel_keepentry(st, b) ==
    LET old == st.bel_to_cell[b] IN
    IF old = NullCell
    THEN Raise(st, "NotBound")
    ELSE [st EXCEPT !.bel[old] = NullBel,
                    !.belStrength[old] = "NONE"]

\* clears both sides; fails with NotBound when the bel is unbound
unbindBel(st, b) ==
    LET old == st.bel_to_cell[b] IN
    IF old = NullCell
    THEN Raise(st, "NotBound")
    ELSE [st EXCEPT !.bel[old] = NullBel,
                    !.belStrength[old] = "NONE",
                    !.bel_to_cell[b] = NullCell]

\* architecture design rule: the cells bound in one tile share one clock
isValidBelForCell(st, c, b) ==
    \A o \in Bels :
        (belX(o) = belX(b) /\ st.bel_to_cell[o] \notin {NullCell, c})
            => clock[st.bel_to_cell[o]] = clock[c]

----------------------------------------------------------------------------
(* place_cell *)

\* sum over the placed cells of a sequence of their distance to bel b
RECURSIVE SumDistance(_, _, _)
SumDistance(st, b, cs) ==
    IF cs = <<>> THEN 0
    ELSE (IF st.bel[Head(cs)] # NullBel THEN Distance(b, st.bel[Head(cs)]) ELSE 0)
         + SumDistance(st, b, Tail(cs))

\* PortDistance going over the users of a net of any size
PortDistance_nodamping(st, b, n) ==
    SumDistance(st, b, <<Driver(n)>>) + SumDistance(st, b, Users(inNet, n))

\* what one port on net n adds to the distance of bel b
PortDistance(st, b, n) ==
    SumDistance(st, b, <<Driver(n)>>)
    + (IF Len(Users(inNet, n)) < 5 THEN SumDistance(st, b, Users(inNet, n)) ELSE 0)

RECURSIVE PortsDistance(_, _, _)
PortsDistance(st, b, ns) ==
    IF ns = <<>> THEN 0
    ELSE PortDistance(st, b, Head(ns)) + PortsDistance(st, b, Tail(ns))

\* the distance computed for candidate bel b of cell c
BelDistance(st, c, b) == PortsDistance(st, b, PortNets(inNet, c))

\* IsCandidate without the comparison of the bel type
IsCandidate_anytype(st, c, b) ==
    /\ checkBelAvail(st, b)
    /\ isValidBelForCell(st, c, b)

\* the bels place_cell scores for cell c
IsCandidate(st, c, b) ==
    /\ getBelType(b) = belTypeFromId(cellType[c])
    /\ checkBelAvail(st, b)
    /\ isValidBelForCell(st, c, b)

\* ScanBels keeping the first of the bels of equal distance
RECURSIVE ScanBels_strict(_, _, _, _, _)
ScanBels_strict(st, c, i, best, best_distance) ==
    IF i > Len(getBels) THEN best
    ELSE LET b == getBels[i]
             distance == BelDistance(st, c, b)
         IN IF IsCandidate(st, c, b) /\ (best = NullBel \/ distance < best_distance)
            THEN ScanBels_strict(st, c, i + 1, b, distance)
            ELSE ScanBels_strict(st, c, i + 1, best, best_distance)

\* ScanBels with the comparison of the distances turned around
RECURSIVE ScanBels_inverted(_, _, _, _, _)
ScanBels_inverted(st, c, i, best, best_distance) ==
    IF i > Len(getBels) THEN best
    ELSE LET b == getBels[i]
             distance == BelDistance(st, c, b)
         IN IF IsCandidate(st, c, b) /\ (best = NullBel \/ distance >= best_distance)
            THEN ScanBels_inverted(st, c, i + 1, b, distance)
            ELSE ScanBels_inverted(st, c, i + 1, best, best_distance)

\* the scan over chip.getBels(): best_bel after the bels from position i on,
\* given best_bel and best_distance so far (best = NullBel: infinity)
RECURSIVE ScanBels(_, _, _, _, _)
ScanBels(st, c, i, best, best_distance) ==
    IF i > Len(getBels) THEN best
    ELSE LET b == getBels[i]
             distance == BelDistance(st, c, b)
         IN IF IsCandidate(st, c, b) /\ (best = NullBel \/ distance <= best_distance)
            THEN ScanBels(st, c, i + 1, b, distance)
            ELSE ScanBels(st, c, i + 1, best, best_distance)

best_bel(st, c) == ScanBels(st, c, 1, NullBel, 0)

\* Unplace clearing cell->bel without the call of unbindBel
Unplace_nounbind(st, c) ==
    IF st.bel[c] # NullBel THEN [st EXCEPT !.bel[c] = NullBel] ELSE st

\* place.cc 133-136: unbind the cell if it is placed
Unplace(st, c) ==
    IF st.bel[c] # NullBel
    THEN LET u == unbindBel(st, st.bel[c]) IN
         IF u.err # "none" THEN u ELSE [u EXCEPT !.bel[c] = NullBel]
    ELSE st

\* BindBest without the call of bindBel
BindBest_nobind(st, c, b) ==
    LET w == [st EXCEPT !.bel[c] = b]
    IN [w EXCEPT !.attrBEL[c] = getBelName(w.bel[c])]

\* BindBest without the back annotation
BindBest_noannotate(st, c, b) ==
    bindBel([st EXCEPT !.bel[c] = b], b, c, NoStrength)

\* place.cc 177-181: bind the cell to the chosen bel and back annotate
BindBest(st, c, b) ==
    LET w == [st EXCEPT !.bel[c] = b]
        r == bindBel(w, b, c, NoStrength)
    IN IF r.err # "none" THEN r
       ELSE [r EXCEPT !.attrBEL[c] = getBelName(r.bel[c])]

\* place_cell giving the cell its old bel back when it finds no bel
place_cell_restore(st, c) ==
    LET u == Unplace(st, c) IN
    IF u.err # "none" THEN u
    ELSE LET b == best_bel(u, c) IN
         IF b = NullBel THEN Raise(st, "PlacementFailure")
         ELSE BindBest(u, c, b)

place_cell(st, c) ==
    LET u == Unplace(st, c) IN
    IF u.err # "none" THEN u
    ELSE LET b == best_bel(u, c) IN
         IF b = NullBel THEN Raise(u, "PlacementFailure")
         ELSE BindBest(u, c, b)

----------------------------------------------------------------------------
(* place_design_heuristic *)

\* constrain_cell without the call of bindBel
constrain_cell_nobind(st, c) ==
    IF st.attrBEL[c] = NoAttr THEN st
    ELSE LET b == getBelByName(st.attrBEL[c]) IN
         IF b = NullBel THEN Raise(st, "UnknownBel")
         ELSE IF getBelType(b) # belTypeFromId(cellType[c])
              THEN Raise(st, "TypeMismatch")
              ELSE [st EXCEPT !.bel[c] = b]

\* constrain_cell writing cell->bel before the bel type is compared
constrain_cell_early(st, c) ==
    IF st.attrBEL[c] = NoAttr THEN st
    ELSE LET b == getBelByName(st.attrBEL[c]) IN
         IF b = NullBel THEN Raise(st, "UnknownBel")
         ELSE LET w == [st EXCEPT !.bel[c] = b] IN
              IF getBelType(b) # belTypeFromId(cellType[c])
              THEN Raise(w, "TypeMismatch")
              ELSE bindBel(w, b, c, NoStrength)

\* place.cc 191-210: the constraint pass on one cell
constrain_cell(st, c) ==
    IF st.attrBEL[c] = NoAttr THEN st
    ELSE LET b == getBelByName(st.attrBEL[c]) IN
         IF b = NullBel THEN Raise(st, "UnknownBel")
         ELSE IF getBelType(b) # belTypeFromId(cellType[c])
              THEN Raise(st, "TypeMismatch")
              ELSE bindBel([st EXCEPT !.bel[c] = b], b, c, NoStrength)

\* the orders in which a set of cells can be iterated
Orders(S) ==
    {o \in UNION {[1..n -> S] : n \in {Cardinality(S)}} :
        \A i, j \in DOMAIN o : i # j => o[i] # o[j]}

Range(q) == {q[i] : i \in DOMAIN q}

SetCtx(r) ==
    /\ bel' = r.bel
    /\ belStrength' = r.belStrength
    /\ bel_to_cell' = r.bel_to_cell
    /\ attrBEL' = r.attrBEL
    /\ err' = r.err

Design == <<cellType, clock, inNet, loadedBEL>>

\* the attributes, parameters and pin maps the loader leaves on the netlist
AnnotVars == <<netAttrs, cellAttrs, params, pins>>

\* the interner, the flags of the context and what only the loader writes
CtxVars == <<idstring_str_to_idx, idstring_idx_to_str, force, AnnotVars>>

\* the state the placers do not touch
AuxVars ==
    <<wire_to_net, pip_to_net, net_wires, cellName, netName, netDriver,
      netUsers, edits, CtxVars, op>>

NoOp == [name |-> "none"]

\* the variables of place_design alone
PdVars == <<types_used, ti, bi>>

\* the variables of place_design_heuristic alone
HeurVars == <<visit_cells, autoplaced, autoOrder, pass, pos>>

\* no cell placed, no placer started
NothingPlaced ==
    /\ attrBEL = loadedBEL
    /\ bel = [c \in Cells |-> NullBel]
    /\ belStrength = [c \in Cells |-> "NONE"]
    /\ idx = 1
    /\ visit_cells = <<>>
    /\ autoplaced = {}
    /\ autoOrder = <<>>
    /\ pass = 0
    /\ pos = 1
    /\ types_used = <<>>
    /\ ti = 1
    /\ bi = 1
    /\ err = "none"
    /\ wire_to_net = [w \in Wires |-> NullNet]
    /\ pip_to_net = [p \in Pips |-> NullNet]
    /\ net_wires = [n \in Cells |-> <<>>]
    /\ cellName = [c \in Cells |-> c]
    /\ netName = [n \in Cells |-> n]
    /\ netDriver = [n \in Cells |-> Driver(n)]
    /\ netUsers = [n \in Cells |-> PortRefs(inNet, n)]
    /\ edits = 0
    /\ idstring_idx_to_str = <<"">>
    /\ idstring_str_to_idx = [s \in {""} |-> 0]
    /\ force = FALSE
    /\ netAttrs = [n \in Cells |-> <<>>]
    /\ cellAttrs = [c \in Cells |-> <<>>]
    /\ params = [c \in Cells |-> <<>>]
    /\ pins = [c \in Cells |-> <<>>]
    /\ op = NoOp

\* the netlist as loaded: nothing placed, nothing bound
InitDesign ==
    /\ cellType \in [1..NumCells -> CellTypes]
    /\ bel_to_cell = [b \in 1..NumBels |-> NullCell]
    /\ clock \in ClockPlans
    /\ inNet \in Netlists
    /\ loadedBEL \in {a \in [Cells -> AttrValues \cup {NoAttr}] :
                          \A c \in Cells \ Pinnable : a[c] = NoAttr}
    /\ NothingPlaced

Init == InitDesign /\ pc = "constraints"

\* place.cc 189-214: one iteration of the constraint loop
ConstrainCell ==
    /\ pc = "constraints" /\ err = "none" /\ idx <= LastCell
    /\ LET r == constrain_cell(Ctx, idx) IN
       /\ SetCtx(r)
       /\ visit_cells' = IF r.err = "none" /\ attrBEL[idx] # NoAttr
                         THEN Append(visit_cells, idx) ELSE visit_cells
       /\ idx' = IF r.err = "none" THEN idx + 1 ELSE idx
       /\ pc' = IF r.err = "none" THEN pc ELSE "error"
    /\ UNCHANGED <<Design, AuxVars, autoplaced, autoOrder, pass, pos, PdVars>>

\* place.cc 215-216: the constraint loop is over
ConstraintsDone ==
    /\ pc = "constraints" /\ err = "none" /\ idx > LastCell
    /\ pc' = "autoplace"
    /\ idx' = 1
    /\ UNCHANGED <<Design, AuxVars, attrBEL, bel, belStrength, bel_to_cell, visit_cells,
                   autoplaced, autoOrder, pass, pos, PdVars, err>>

\* place.cc 217-225: one iteration of the seeding loop
AutoplaceCell ==
    /\ pc = "autoplace" /\ err = "none" /\ idx <= LastCell
    /\ IF bel[idx] = NullBel
       THEN LET r == place_cell(Ctx, idx) IN
            /\ SetCtx(r)
            /\ autoplaced' = IF r.err = "none" THEN autoplaced \cup {idx}
                             ELSE autoplaced
            /\ idx' = IF r.err = "none" THEN idx + 1 ELSE idx
            /\ pc' = IF r.err = "none" THEN pc ELSE "error"
       ELSE /\ idx' = idx + 1
            /\ UNCHANGED <<attrBEL, bel, belStrength, bel_to_cell, err,
                           autoplaced, pc>>
    /\ UNCHANGED <<Design, AuxVars, visit_cells, autoOrder, pass, pos, PdVars>>

\* the improvement passes going over the constraint-placed cells as well
ReplacedCells_all == autoplaced \cup Range(visit_cells)

\* place.cc 228: the cells the improvement passes go over
ReplacedCells == autoplaced

\* place.cc 226-228: the improvement passes start; the unordered set
\* autoplaced is iterated in an order of the implementation's choosing
AutoplaceDone ==
    /\ pc = "autoplace" /\ err = "none" /\ idx > LastCell
    /\ autoOrder' \in Orders(ReplacedCells)
    /\ pc' = "replace"
    /\ pass' = 0
    /\ pos' = 1
    /\ UNCHANGED <<Design, AuxVars, attrBEL, bel, belStrength, bel_to_cell, idx,
                   visit_cells, autoplaced, PdVars, err>>

\* place.cc 228-233: one iteration of the loop over autoplaced
ReplaceCell ==
    /\ pc = "replace" /\ err = "none" /\ pass < 3 /\ pos <= Len(autoOrder)
    /\ LET r == place_cell(Ctx, autoOrder[pos]) IN
       /\ SetCtx(r)
       /\ pos' = IF r.err = "none" THEN pos + 1 ELSE pos
       /\ pc' = IF r.err = "none" THEN pc ELSE "error"
    /\ UNCHANGED <<Design, AuxVars, idx, visit_cells, autoplaced, autoOrder, pass,
                   PdVars>>

\* place.cc 226, 234: a pass is over
NextPass ==
    /\ pc = "replace" /\ err = "none" /\ pass < 3 /\ pos > Len(autoOrder)
    /\ pass' = pass + 1
    /\ pos' = 1
    /\ pc' = IF pass + 1 = 3 THEN "done" ELSE pc
    /\ UNCHANGED <<Design, AuxVars, attrBEL, bel, belStrength, bel_to_cell, idx,
                   visit_cells, autoplaced, autoOrder, PdVars, err>>

Next ==
    \/ ConstrainCell
    \/ ConstraintsDone
    \/ AutoplaceCell
    \/ AutoplaceDone
    \/ ReplaceCell
    \/ NextPass

Spec == Init /\ [][Next]_vars

----------------------------------------------------------------------------
(* place_design *)

\* std::set<IdString> iterates in the order of the interned indices
IdOrder == <<"LUT", "FF", "DSP">>

\* place.cc 73-93: the types of the unplaced cells, in the set's order
collect_types(st) ==
    SelectSeq(IdOrder, LAMBDA t : \E c \in Cells : st.bel[c] = NullBel /\ cellType[c] = t)

\* place.cc 87-91: an unplaced cell whose type is no bel type
HasUnknownType(st) ==
    \E c \in Cells : st.bel[c] = NullBel /\ belTypeFromId(cellType[c]) = TYPE_NONE

\* advance_cursor starting over from the first bel for every cell
advance_cursor_restart(st, c, t, i) ==
    LET S == {b \in Bels : IsCandidate(st, c, b)}
    IN IF S = {} THEN Len(getBels) + 1
       ELSE CHOOSE b \in S : \A o \in S : b <= o

\* place.cc 110-114: the cursor moved past the bels that are not of the
\* type, not available or not valid for the cell; Len(getBels) + 1: the end
RECURSIVE advance_cursor(_, _, _, _)
advance_cursor(st, c, t, i) ==
    IF i <= Len(getBels)
       /\ (getBelType(getBels[i]) # belTypeFromId(t)
           \/ ~checkBelAvail(st, getBels[i])
           \/ ~isValidBelForCell(st, c, getBels[i]))
    THEN advance_cursor(st, c, t, i + 1)
    ELSE i

\* seed_cell without the call of bindBel
seed_cell_nobind(st, c, i) ==
    LET w == [st EXCEPT !.bel[c] = getBels[i]]
    IN [w EXCEPT !.attrBEL[c] = getBelName(w.bel[c])]

\* place.cc 118-122: take the bel under the cursor, bind it, back annotate
seed_cell(st, c, i) ==
    LET w == [st EXCEPT !.bel[c] = getBels[i]]
        r == bindBel(w, w.bel[c], c, NoStrength)
    IN IF r.err # "none" THEN r
       ELSE [r EXCEPT !.attrBEL[c] = getBelName(r.bel[c])]

InitPd == InitDesign /\ pc = "pd_constraints"

\* place.cc 48-71: one iteration of the constraint loop
PdConstrainCell ==
    /\ pc = "pd_constraints" /\ err = "none" /\ idx <= LastCell
    /\ LET r == constrain_cell(Ctx, idx) IN
       /\ SetCtx(r)
       /\ idx' = IF r.err = "none" THEN idx + 1 ELSE idx
       /\ pc' = IF r.err = "none" THEN pc ELSE "error"
    /\ UNCHANGED <<Design, AuxVars, HeurVars, PdVars>>

\* place.cc 73-99: the types to place are collected, the first one starts
PdCollectTypes ==
    /\ pc = "pd_constraints" /\ err = "none" /\ idx > LastCell
    /\ IF HasUnknownType(Ctx)
       THEN /\ err' = "UnknownBelType"
            /\ pc' = "error"
            /\ UNCHANGED <<types_used, idx>>
       ELSE /\ types_used' = collect_types(Ctx)
            /\ pc' = IF collect_types(Ctx) = <<>> THEN "done" ELSE "pd_seed"
            /\ idx' = 1
            /\ err' = err
    /\ ti' = 1
    /\ bi' = 1
    /\ UNCHANGED <<Design, AuxVars, HeurVars, attrBEL, bel, belStrength, bel_to_cell>>

\* place.cc 100-123: one iteration of the loop over the cells for a type
PdSeedCell ==
    /\ pc = "pd_seed" /\ err = "none" /\ idx <= LastCell
    /\ IF bel[idx] # NullBel \/ cellType[idx] # types_used[ti]
       THEN /\ idx' = idx + 1
            /\ UNCHANGED <<attrBEL, bel, belStrength, bel_to_cell, err, bi, pc>>
       ELSE LET i == advance_cursor(Ctx, idx, types_used[ti], bi) IN
            IF i > Len(getBels)
            THEN /\ err' = "ResourceExhausted"
                 /\ pc' = "error"
                 /\ bi' = i
                 /\ UNCHANGED <<attrBEL, bel, belStrength, bel_to_cell, idx>>
            ELSE LET r == seed_cell(Ctx, idx, i) IN
                 /\ SetCtx(r)
                 /\ bi' = i + 1
                 /\ idx' = IF r.err = "none" THEN idx + 1 ELSE idx
                 /\ pc' = IF r.err = "none" THEN pc ELSE "error"
    /\ UNCHANGED <<Design, AuxVars, HeurVars, types_used, ti>>

\* place.cc 95-99, 124: the cells of a type are placed, the next starts
PdNextType ==
    /\ pc = "pd_seed" /\ err = "none" /\ idx > LastCell
    /\ ti' = ti + 1
    /\ bi' = 1
    /\ idx' = 1
    /\ pc' = IF ti + 1 > Len(types_used) THEN "done" ELSE pc
    /\ UNCHANGED <<Design, AuxVars, HeurVars, types_used, attrBEL, bel, belStrength,
                   bel_to_cell, err>>

NextPd ==
    \/ PdConstrainCell
    \/ PdCollectTypes
    \/ PdSeedCell
    \/ PdNextType

SpecPd == InitPd /\ [][NextPd]_vars

----------------------------------------------------------------------------
(* A whole run of place_design_heuristic as a function of the loaded       *)
(* design and of the order in which autoplaced is iterated.                *)

RECURSIVE RunConstraints(_, _)
RunConstraints(st, c) ==
    IF c > LastCell \/ st.err # "none" THEN st
    ELSE RunConstraints(constrain_cell(st, c), c + 1)

RECURSIVE RunSeeding(_, _)
RunSeeding(st, c) ==
    IF c > LastCell \/ st.err # "none" THEN st
    ELSE RunSeeding(IF st.bel[c] = NullBel THEN place_cell(st, c) ELSE st, c + 1)

RECURSIVE RunPass(_, _, _)
RunPass(st, order, p) ==
    IF p > Len(order) \/ st.err # "none" THEN st
    ELSE RunPass(place_cell(st, order[p]), order, p + 1)

RECURSIVE RunPasses(_, _, _)
RunPasses(st, order, i) ==
    IF i >= 3 THEN st ELSE RunPasses(RunPass(st, order, 1), order, i + 1)

\* the cells of S in insertion order
RECURSIVE InsertionOrder(_, _)
InsertionOrder(S, c) ==
    IF c > LastCell THEN <<>>
    ELSE (IF c \in S THEN <<c>> ELSE <<>>) \o InsertionOrder(S, c + 1)

\* the design as it was loaded
Loaded ==
    [bel |-> [c \in Cells |-> NullBel],
     belStrength |-> [c \in Cells |-> "NONE"],
     bel_to_cell |-> [b \in Bels |-> NullCell],
     attrBEL |-> loadedBEL,
     err |-> "none"]

RunInInsertionOrder ==
    LET seeded == RunSeeding(RunConstraints(Loaded, 1), 1)
    IN RunPasses(seeded, InsertionOrder(autoplaced, 1), 0)

AfterConstraints == pc \in {"autoplace", "replace", "done"}

----------------------------------------------------------------------------
(* Properties of place_design_heuristic *)

\* C1: after the constraint pass and after the heuristic placer completes,
\* no two distinct placed cells hold the same bel.
C1_NoSharedBel ==
    AfterConstraints =>
        \A c1, c2 \in Cells :
            (c1 # c2 /\ bel[c1] # NullBel /\ bel[c2] # NullBel)
                => bel[c1] # bel[c2]

C1_Witness ==
    /\ pc = "done"
    /\ \E c1 \in Range(visit_cells), c2 \in autoplaced :
          cellType[c1] = cellType[c2]

\* C2: after each placement phase every placed cell sits on a bel whose
\* type is the bel type derived from the cell's type.
C2_TypeMatch ==
    AfterConstraints =>
        \A c \in Cells :
            bel[c] # NullBel => getBelType(bel[c]) = belTypeFromId(cellType[c])

C2_Witness ==
    /\ pc = "done"
    /\ \E c1 \in Range(visit_cells), c2 \in autoplaced :
          cellType[c1] # cellType[c2]

\* C3: when the heuristic placer finishes without error every cell has a
\* bel and its BEL attribute is the catalog name of that bel.
C3_BackAnnotated ==
    pc = "done" =>
        \A c \in Cells :
            bel[c] # NullBel /\ attrBEL[c] = getBelName(bel[c])

C3_Witness ==
    /\ pc = "done"
    /\ Len(visit_cells) = 1
    /\ Cardinality(autoplaced) = LastCell - 1

\* C4: after each placement phase isValidBelForCell(c, c.bel) is true for
\* every placed cell, the cells placed by user constraint included.
C4_AllValid ==
    ((pc = "autoplace" /\ idx = 1) \/ pc = "done") =>
        \A c \in Cells :
            bel[c] # NullBel => isValidBelForCell(Ctx, c, bel[c])

\* C5: invariant I1 at every boundary of a phase that runs without error:
\* a cell with a bel is the cell the binding store maps that bel to.
C5_I1 ==
    err = "none" =>
        \A c \in Cells :
            bel[c] # NullBel => getBoundBelCell(Ctx, bel[c]) = c

C5_Witness ==
    /\ pc = "replace" /\ pass >= 1
    /\ pos > Len(autoOrder)
    /\ Len(autoOrder) >= 2
    /\ visit_cells # <<>>

\* C6: a cell whose BEL attribute names a bel of its type is bound to that
\* bel by the constraint pass and no later step unbinds or moves it.
C6_PinnedStay ==
    AfterConstraints =>
        \A c \in Cells :
            loadedBEL[c] # NoAttr =>
                /\ bel[c] = getBelByName(loadedBEL[c])
                /\ getBoundBelCell(Ctx, bel[c]) = c
                /\ c \notin autoplaced

C6_Witness ==
    /\ pc = "done"
    /\ autoplaced # {}
    /\ \E c \in Range(visit_cells) :
          \E b \in Bels :
              /\ getBelType(b) = getBelType(bel[c])
              /\ b > bel[c]
              /\ checkBelAvail(Ctx, b)
              /\ isValidBelForCell(Ctx, c, b)

\* C7: every binding the constraint pass makes for a user-pinned cell is
\* recorded with strength USER.
C7_StrengthUser ==
    \A c \in Range(visit_cells) : belStrength[c] = "USER"

\* C8 as claimed: when the constraint pass raises UnknownBel or
\* TypeMismatch no cell's bel and no binding differs from the state before
\* the pass.
C8_NoMutation ==
    err \in {"UnknownBel", "TypeMismatch"} =>
        /\ \A c \in Cells : bel[c] = NullBel
        /\ \A b \in Bels : bel_to_cell[b] = NullCell

\* C8 as amended: when the constraint pass raises UnknownBel or
\* TypeMismatch the failing cell and the cells after it are untouched and
\* bind nothing; the cells pinned before it keep their bindings.
C8_FailingCellUntouched ==
    err \in {"UnknownBel", "TypeMismatch"} =>
        /\ \A c \in Cells :
              c >= idx => (bel[c] = NullBel /\ belStrength[c] = "NONE")
        /\ \A b \in Bels :
              bel_to_cell[b] # NullCell =>
                  (bel_to_cell[b] \in Range(visit_cells) /\ bel_to_cell[b] < idx)
        /\ \A c \in Range(visit_cells) :
              bel[c] = getBelByName(attrBEL[c]) /\ bel_to_cell[bel[c]] = c
        /\ \A c \in Cells : c \notin Range(visit_cells) => bel[c] = NullBel

C8_Witness ==
    /\ err = "TypeMismatch"
    /\ visit_cells # <<>>
    /\ bel[visit_cells[1]] # NullBel

\* C10: the bel of every cell at the end of the heuristic placer is the
\* same whatever order the set of automatically placed cells is iterated in:
\* it is the result of the run that iterates it in insertion order.
C10_Deterministic ==
    pc = "done" => bel = RunInInsertionOrder.bel

----------------------------------------------------------------------------
(* Properties of place_design *)

BelsOfType(t) == {b \in Bels : getBelType(b) = belTypeFromId(t)}

\* the cells of type t the user did not pin
Unconstrained(t) == {c \in Cells : cellType[c] = t /\ loadedBEL[c] = NoAttr}

\* the cells of S are bound to distinct bels of type t
BoundDistinct(S, t) ==
    /\ \A c \in S :
          /\ bel[c] \in BelsOfType(t)
          /\ getBoundBelCell(Ctx, bel[c]) = c
    /\ \A c1, c2 \in S : c1 # c2 => bel[c1] # bel[c2]

\* C9 as claimed: with N+1 unconstrained cells of type T and N bels of
\* type T, when ResourceExhausted is raised the first N of these cells are
\* bound to N distinct bels of type T.
C9_FirstNBound ==
    err = "ResourceExhausted" =>
        LET t == cellType[idx]
            U == Unconstrained(t)
        IN Cardinality(U) = Cardinality(BelsOfType(t)) + 1 =>
              BoundDistinct({c \in U : \E d \in U : d > c}, t)

\* C9 as amended: ResourceExhausted is raised no later than at the
\* (N+1)-th cell of type T, and the cells of type T processed before the
\* failing cell are still bound, each to a distinct bel of type T.
C9_EarlierCellsBound ==
    err = "ResourceExhausted" =>
        LET t == cellType[idx]
            before == {c \in Cells : cellType[c] = t /\ c < idx}
        IN /\ bel[idx] = NullBel
           /\ BoundDistinct(before, t)
           /\ Cardinality(before) <= Cardinality(BelsOfType(t))
           /\ \A c \in Cells : (cellType[c] = t /\ c > idx) => loadedBEL[c] # NoAttr \/ bel[c] = NullBel

C9_Witness ==
    /\ err = "ResourceExhausted"
    /\ LET t == cellType[idx]
           U == Unconstrained(t)
       IN /\ Cardinality(U) = Cardinality(BelsOfType(t)) + 1
          /\ \A c \in U : c <= idx
          /\ BoundDistinct(U \ {idx}, t)

----------------------------------------------------------------------------
(* The binding store of bels, driven call by call on a fixed netlist *)

\* the strengths the calls name: none (as place.cc does), PLACER, USER
CallStrengths == {"NONE", "PLACER", "USER"}

\* the variables of the placers alone
PlacerVars ==
    <<pc, idx, visit_cells, autoplaced, autoOrder, pass, pos, types_used, ti, bi>>

\* the bel side of the binding store
BelStore == <<bel, belStrength, bel_to_cell>>

\* the wire side of the binding store
RouteVars == <<wire_to_net, pip_to_net, net_wires>>

\* the names and the cross links of the netlist
LinkVars == <<cellName, netName, netDriver, netUsers, edits>>

\* three LUT cells on one clock, no BEL attribute, nothing bound
FixedDesign ==
    /\ InitDesign
    /\ cellType = [c \in Cells |-> "LUT"]
    /\ clock = [c \in Cells |-> "clkA"]
    /\ inNet = NetStar
    /\ loadedBEL = [c \in Cells |-> NoAttr]

InitStore == FixedDesign /\ pc = "store"

\* the design as a call that follows a returned call sees it
StoreCtx == [Ctx EXCEPT !.err = "none"]

\* bindBel(b, c, s) on a cell that is unplaced or sits on b already
BindBel(b, c, s) ==
    /\ pc = "store"
    /\ bel[c] \in {NullBel, b}
    /\ SetCtx(bindBel(StoreCtx, b, c, s))
    /\ op' = [name |-> "bindBel", bel |-> b, cell |-> c, strength |-> s]
    /\ UNCHANGED <<Design, PlacerVars, RouteVars, LinkVars, CtxVars>>

UnbindBel(b) ==
    /\ pc = "store"
    /\ SetCtx(unbindBel(StoreCtx, b))
    /\ op' = [name |-> "unbindBel", bel |-> b, cell |-> bel_to_cell[b],
              strength |-> "NONE"]
    /\ UNCHANGED <<Design, PlacerVars, RouteVars, LinkVars, CtxVars>>

\* unbindBel(b); bindBel(b, c, s) for the cell c bound to b at strength s
RebindBel(b) ==
    /\ pc = "store"
    /\ bel_to_cell[b] # NullCell
    /\ LET c == bel_to_cell[b]
           s == belStrength[c]
           u == unbindBel(StoreCtx, b)
       IN /\ SetCtx(IF u.err # "none" THEN u ELSE bindBel(u, b, c, s))
          /\ op' = [name |-> "rebindBel", bel |-> b, cell |-> c, strength |-> s]
    /\ UNCHANGED <<Design, PlacerVars, RouteVars, LinkVars, CtxVars>>

NextStore ==
    \/ \E b \in Bels, c \in Cells, s \in CallStrengths : BindBel(b, c, s)
    \/ \E b \in Bels : UnbindBel(b)
    \/ \E b \in Bels : RebindBel(b)

SpecStore == InitStore /\ [][NextStore]_vars

----------------------------------------------------------------------------
(* Properties of the binding store of bels *)

\* C11: unbindBel(bel) followed by bindBel(bel, cell, s), for the cell bound
\* to bel at strength s, leaves the bel->cell map and every cell's bel and
\* belStrength exactly as they were, and raises no error.
C11_RoundTrip ==
    [][op'.name = "rebindBel" => (err' = "none" /\ UNCHANGED BelStore)]_vars

C11_Witness ==
    /\ op.name = "rebindBel"
    /\ belStrength[op.cell] = "USER"
    /\ bel[op.cell] = op.bel
    /\ \E c \in Cells : c # op.cell /\ belStrength[c] = "PLACER"

\* C13: bindBel(bel, cell, s) raises AlreadyBound whenever bel is bound at
\* a strength >= s, unbindBel(bel) raises NotBound whenever bel is unbound,
\* and a failing call leaves the bel->cell map and the cells' bel and
\* belStrength unchanged.
C13_Preconditions ==
    [][/\ (/\ op'.name = "bindBel"
           /\ bel_to_cell[op'.bel] # NullCell
           /\ StrengthRank(belStrength[bel_to_cell[op'.bel]])
                  >= StrengthRank(op'.strength))
          => (err' = "AlreadyBound" /\ UNCHANGED BelStore)
       /\ (op'.name = "unbindBel" /\ bel_to_cell[op'.bel] = NullCell)
          => (err' = "NotBound" /\ UNCHANGED BelStore)
       /\ (op'.name \in {"bindBel", "unbindBel"} /\ err' # "none")
          => UNCHANGED BelStore]_vars

C13_Witness ==
    /\ op.name = "bindBel"
    /\ err = "AlreadyBound"
    /\ bel_to_cell[op.bel] # op.cell
    /\ belStrength[bel_to_cell[op.bel]] = op.strength
    /\ op.strength = "USER"

----------------------------------------------------------------------------
(* Total wirelength of a placement and one more improvement pass *)

SetMax(S) == CHOOSE m \in S : \A x \in S : x <= m
SetMin(S) == CHOOSE m \in S : \A x \in S : m <= x

\* the placed cells on net n: its driver and its users
Terminals(st, n) ==
    {c \in {Driver(n)} \cup Range(Users(inNet, n)) : st.bel[c] # NullBel}

\* half-perimeter of the box around the terminals of net n
HPWL(st, n) ==
    LET xs == {belX(st.bel[c]) : c \in Terminals(st, n)}
        ys == {belY(st.bel[c]) : c \in Terminals(st, n)}
    IN IF xs = {} THEN 0
       ELSE (SetMax(xs) - SetMin(xs)) + (SetMax(ys) - SetMin(ys))

RECURSIVE SumHPWL(_, _)
SumHPWL(st, n) ==
    IF n > LastCell THEN 0 ELSE HPWL(st, n) + SumHPWL(st, n + 1)

TotalHPWL(st) == SumHPWL(st, 1)

\* a design of six cells or more: cell 3 is a flip-flop; cell 1 reads
\* cell 5, cell 2 reads cell 3, cell 3 reads cell 5, cell 4 reads cells 1
\* and 2, cell 5 reads cell 1, cell 6 reads cells 3 and 5
WideTypes == [c \in 1..WideCells |-> IF c = 3 THEN "FF" ELSE "LUT"]

WideNet ==
    [c \in 1..WideCells |->
        CASE c = 1 -> <<5>>
          [] c = 2 -> <<3>>
          [] c = 3 -> <<5>>
          [] c = 4 -> <<1, 2>>
          [] c = 5 -> <<1>>
          [] c = 6 -> <<3, 5>>
          [] OTHER -> <<>>]

InitWide ==
    /\ cellType = WideTypes
    /\ bel_to_cell = [b \in 1..WideBels |-> NullCell]
    /\ clock = [c \in Cells |-> "clkA"]
    /\ inNet = WideNet
    /\ loadedBEL = [c \in Cells |-> NoAttr]
    /\ NothingPlaced
    /\ pc = "constraints"

\* place_design_heuristic on the larger design
SpecWide == InitWide /\ [][Next]_vars

\* the placement after one more pass over autoplaced, in the same order
FourthPass == RunPass(Ctx, autoOrder, 1)

\* C12: a fourth improvement pass after the three prescribed ones does not
\* decrease the total wirelength of the placement (it holds on the designs
\* of three cells, it fails on the larger design).
C12_FourthPassNoGain ==
    pc = "done" => TotalHPWL(FourthPass) >= TotalHPWL(Ctx)

----------------------------------------------------------------------------
(* The binding store of wires and pips.  A net's wires map has an entry    *)
(* {pip, strength} for every wire that carries the net; the strength of a  *)
(* wire's or a pip's binding is the strength of that entry.                *)

\* the wire side of the design, as the calls see it
Rt ==
    [wire_to_net |-> wire_to_net, pip_to_net |-> pip_to_net,
     net_wires |-> net_wires, err |-> "none"]

\* the map m with the entry e for wire w, and m without wire w
PutWire(m, w, e) == [x \in DOMAIN m \cup {w} |-> IF x = w THEN e ELSE m[x]]
DropWire(m, w) == [x \in DOMAIN m \ {w} |-> m[x]]

\* the strength wire w is bound at
WireStrength(rt, w) == rt.net_wires[rt.wire_to_net[w]][w].strength

\* unbindWire without the release of the driving pip
unbindWire_nocascade(rt, w) ==
    LET n == rt.wire_to_net[w] IN
    IF n = NullNet THEN Raise(rt, "NotBound")
    ELSE [rt EXCEPT !.net_wires[n] = DropWire(rt.net_wires[n], w),
                    !.wire_to_net[w] = NullNet]

\* removes the wire from its net's wires map and releases the pip that
\* drives it; fails with NotBound when the wire is unbound
unbindWire(rt, w) ==
    LET n == rt.wire_to_net[w] IN
    IF n = NullNet THEN Raise(rt, "NotBound")
    ELSE LET p == rt.net_wires[n][w].pip IN
         [rt EXCEPT !.net_wires[n] = DropWire(rt.net_wires[n], w),
                    !.wire_to_net[w] = NullNet,
                    !.pip_to_net = [x \in Pips |->
                        IF x = p THEN NullNet ELSE rt.pip_to_net[x]]]

\* unbinds the pip and the wire it drives
unbindPip(rt, p) ==
    LET n == rt.pip_to_net[p]
        w == getPipDstWire(p)
    IN IF n = NullNet THEN Raise(rt, "NotBound")
       ELSE [rt EXCEPT !.net_wires[n] = DropWire(rt.net_wires[n], w),
                       !.wire_to_net[w] = NullNet,
                       !.pip_to_net[p] = NullNet]

\* the wire free for a binding of strength s: unbound, or a weaker binding
\* released first
EvictWire(rt, w) == IF rt.wire_to_net[w] = NullNet THEN rt ELSE unbindWire(rt, w)

\* for a wire driven by a bel pin: fails with AlreadyBound when the wire is
\* bound at >= strength, else records {null pip, strength} for the wire
bindWire(rt, w, n, s) ==
    IF rt.wire_to_net[w] # NullNet
       /\ StrengthRank(WireStrength(rt, w)) >= StrengthRank(s)
    THEN Raise(rt, "AlreadyBound")
    ELSE LET r == EvictWire(rt, w) IN
         [r EXCEPT !.wire_to_net[w] = n,
                   !.net_wires[n] =
                       PutWire(r.net_wires[n], w, [pip |-> NullPip, strength |-> s])]

\* bindPip recording the pip in the net's wires map without binding the wire
bindPip_nowire(rt, p, n, s) ==
    LET w == getPipDstWire(p) IN
    IF \/ (rt.pip_to_net[p] # NullNet
           /\ StrengthRank(WireStrength(rt, w)) >= StrengthRank(s))
       \/ (rt.wire_to_net[w] # NullNet
           /\ StrengthRank(WireStrength(rt, w)) >= StrengthRank(s))
    THEN Raise(rt, "AlreadyBound")
    ELSE LET r == EvictWire(rt, w) IN
         [r EXCEPT !.pip_to_net[p] = n,
                   !.net_wires[n] =
                       PutWire(r.net_wires[n], w, [pip |-> p, strength |-> s])]

\* binds the pip and its destination wire: fails with AlreadyBound when the
\* pip or the wire is bound at >= strength, else records {pip, strength}
\* for the wire
bindPip(rt, p, n, s) ==
    LET w == getPipDstWire(p) IN
    IF \/ (rt.pip_to_net[p] # NullNet
           /\ StrengthRank(WireStrength(rt, w)) >= StrengthRank(s))
       \/ (rt.wire_to_net[w] # NullNet
           /\ StrengthRank(WireStrength(rt, w)) >= StrengthRank(s))
    THEN Raise(rt, "AlreadyBound")
    ELSE LET r == EvictWire(rt, w) IN
         [r EXCEPT !.pip_to_net[p] = n,
                   !.wire_to_net[w] = n,
                   !.net_wires[n] =
                       PutWire(r.net_wires[n], w, [pip |-> p, strength |-> s])]

SetRt(r) ==
    /\ wire_to_net' = r.wire_to_net
    /\ pip_to_net' = r.pip_to_net
    /\ net_wires' = r.net_wires
    /\ err' = r.err

\* the nets that are routed and the strengths the router names
RouteNets == {1, 2}
RouteStrengths == {"WEAK", "STRONG"}

\* the variables of the placement
PlaceVars == <<attrBEL, bel, belStrength, bel_to_cell>>

InitRoute == FixedDesign /\ pc = "route"

BindWire(w, n, s) ==
    /\ pc = "route"
    /\ SetRt(bindWire(Rt, w, n, s))
    /\ op' = [name |-> "bindWire", wire |-> w, pip |-> NullPip, net |-> n,
              strength |-> s]
    /\ UNCHANGED <<Design, PlacerVars, PlaceVars, LinkVars, CtxVars>>

BindPip(p, n, s) ==
    /\ pc = "route"
    /\ SetRt(bindPip(Rt, p, n, s))
    /\ op' = [name |-> "bindPip", wire |-> getPipDstWire(p), pip |-> p,
              net |-> n, strength |-> s]
    /\ UNCHANGED <<Design, PlacerVars, PlaceVars, LinkVars, CtxVars>>

\* op records the pip the removed entry named
UnbindWire(w) ==
    /\ pc = "route"
    /\ SetRt(unbindWire(Rt, w))
    /\ op' = [name |-> "unbindWire", wire |-> w,
              pip |-> IF wire_to_net[w] = NullNet THEN NullPip
                      ELSE net_wires[wire_to_net[w]][w].pip,
              net |-> wire_to_net[w], strength |-> "NONE"]
    /\ UNCHANGED <<Design, PlacerVars, PlaceVars, LinkVars, CtxVars>>

UnbindPip(p) ==
    /\ pc = "route"
    /\ SetRt(unbindPip(Rt, p))
    /\ op' = [name |-> "unbindPip", wire |-> getPipDstWire(p), pip |-> p,
              net |-> pip_to_net[p], strength |-> "NONE"]
    /\ UNCHANGED <<Design, PlacerVars, PlaceVars, LinkVars, CtxVars>>

NextRoute ==
    \/ \E w \in Wires, n \in RouteNets, s \in RouteStrengths : BindWire(w, n, s)
    \/ \E p \in Pips, n \in RouteNets, s \in RouteStrengths : BindPip(p, n, s)
    \/ \E w \in Wires : UnbindWire(w)
    \/ \E p \in Pips : UnbindPip(p)

SpecRoute == InitRoute /\ [][NextRoute]_vars

----------------------------------------------------------------------------
(* Properties of the binding store of wires and pips *)

\* the net a wire or a pip is bound to, IdString() when it is not bound
getBoundWireNet(w) == IF w \in DOMAIN wire_to_net THEN wire_to_net[w] ELSE NullNet
getBoundPipNet(p) == IF p \in DOMAIN pip_to_net THEN pip_to_net[p] ELSE NullNet

\* I2: every net is stored under its name; every wire in a net's wires map
\* is bound to the net; a non-null pip recorded for the wire has the wire as
\* destination and is bound to the net
I2 ==
    \A n \in DOMAIN net_wires :
        /\ netName[n] = n
        /\ \A w \in DOMAIN net_wires[n] :
              /\ getBoundWireNet(w) = n
              /\ net_wires[n][w].pip # NullPip =>
                    /\ getPipDstWire(net_wires[n][w].pip) = w
                    /\ getBoundPipNet(net_wires[n][w].pip) = n

\* I3: every bound wire is in the wires map of the net it is bound to
I3 ==
    \A w \in DOMAIN wire_to_net :
        wire_to_net[w] # NullNet =>
            /\ wire_to_net[w] \in DOMAIN net_wires
            /\ w \in DOMAIN net_wires[wire_to_net[w]]

\* C14: after any sequence of bindWire, bindPip, unbindWire and unbindPip
\* calls, I2 and I3 hold.
C14_I2I3 == I2 /\ I3

C14_Witness ==
    /\ op.name = "unbindPip" /\ err = "none"
    /\ \E n \in RouteNets :
          /\ \E w \in DOMAIN net_wires[n] : net_wires[n][w].pip # NullPip
          /\ \E w \in DOMAIN net_wires[n] : net_wires[n][w].pip = NullPip
    /\ op.net \in RouteNets /\ net_wires[op.net] = <<>>

\* C15: unbindWire(w) removes w from its net's wires map and releases the
\* pip the removed entry named, so that no pip that drives w stays bound.
C15_Cascade ==
    [][(op'.name = "unbindWire" /\ err' = "none") =>
          /\ \A n \in DOMAIN net_wires' : op'.wire \notin DOMAIN net_wires'[n]
          /\ wire_to_net'[op'.wire] = NullNet
          /\ op'.pip # NullPip => pip_to_net'[op'.pip] = NullNet
          /\ \A p \in Pips :
                getPipDstWire(p) = op'.wire => pip_to_net'[p] = NullNet]_vars

C15_Witness ==
    /\ op.name = "unbindWire" /\ err = "none"
    /\ op.pip # NullPip
    /\ pip_to_net[op.pip] = NullNet
    /\ \E p \in Pips : pip_to_net[p] # NullNet

----------------------------------------------------------------------------
(* Context::check on a design whose fields and store entries were written  *)
(* directly, past bind and unbind                                          *)

\* a WireId the catalog did not issue
ForeignWire == NumWires + 1

\* nextpnr.cc 231-241: the loop over nets
CheckNets ==
    \A n \in DOMAIN net_wires :
        /\ n = netName[n]
        /\ \A w \in DOMAIN net_wires[n] :
              /\ n = getBoundWireNet(w)
              /\ net_wires[n][w].pip # NullPip =>
                    /\ w = getPipDstWire(net_wires[n][w].pip)
                    /\ n = getBoundPipNet(net_wires[n][w].pip)

\* nextpnr.cc 243-248: the loop over getWires(); nets.at throws for a net
\* that is not in nets
CheckWires ==
    \A w \in Wires :
        getBoundWireNet(w) # NullNet =>
            /\ getBoundWireNet(w) \in DOMAIN net_wires
            /\ w \in DOMAIN net_wires[getBoundWireNet(w)]

\* nextpnr.cc 254-266: the ports of cell c, the output port O on the net of
\* the cell's name and the input ports on the nets of inNet[c]
CheckPorts(c) ==
    /\ netName[c] \in DOMAIN net_wires
    /\ netDriver[c] = c
    /\ \A k \in DOMAIN inNet[c] :
          /\ netName[inNet[c][k]] \in DOMAIN net_wires
          /\ Cardinality({i \in DOMAIN netUsers[inNet[c][k]] :
                          netUsers[inNet[c][k]][i] = <<c, k>>}) = 1

\* nextpnr.cc 250-267: the loop over cells
CheckCells ==
    \A c \in Cells :
        /\ c = cellName[c]
        /\ bel[c] # NullBel => getBoundBelCell(Ctx, bel[c]) = c
        /\ CheckPorts(c)

\* TRUE when no assertion of check() fails
check == CheckNets /\ CheckWires /\ CheckCells

\* the cells, nets and bels the direct writes touch
EditCells == {1, 2}
EditBels == {1, 2}

\* the map m with value v under key k
PutKey(m, k, v) == [x \in DOMAIN m \cup {k} |-> IF x = k THEN v ELSE m[x]]

InitCheck == FixedDesign /\ pc = "edit"

\* net.wires[w] = {p, STRONG}, the binding store not updated
SetWireEntry(n, w, p) ==
    /\ pc = "edit" /\ edits < MaxEdits
    /\ net_wires' = [net_wires EXCEPT
                        ![n] = PutWire(@, w, [pip |-> p, strength |-> "STRONG"])]
    /\ edits' = edits + 1
    /\ UNCHANGED <<Design, PlacerVars, PlaceVars, wire_to_net, pip_to_net,
                   cellName, netName, netDriver, netUsers, err, op,
                   CtxVars>>

\* the store's entry of a wire, the net's wires map not updated
SetWireNet(w, n) ==
    /\ pc = "edit" /\ edits < MaxEdits
    /\ wire_to_net' = PutKey(wire_to_net, w, n)
    /\ edits' = edits + 1
    /\ UNCHANGED <<Design, PlacerVars, PlaceVars, net_wires, pip_to_net,
                   cellName, netName, netDriver, netUsers, err, op,
                   CtxVars>>

\* the store's entry of a pip
SetPipNet(p, n) ==
    /\ pc = "edit" /\ edits < MaxEdits
    /\ pip_to_net' = [pip_to_net EXCEPT ![p] = n]
    /\ edits' = edits + 1
    /\ UNCHANGED <<Design, PlacerVars, PlaceVars, net_wires, wire_to_net,
                   cellName, netName, netDriver, netUsers, err, op,
                   CtxVars>>

\* cell.bel, the binding store not updated
SetCellBel(c, b) ==
    /\ pc = "edit" /\ edits < MaxEdits
    /\ bel' = [bel EXCEPT ![c] = b]
    /\ edits' = edits + 1
    /\ UNCHANGED <<Design, PlacerVars, RouteVars, attrBEL, belStrength,
                   bel_to_cell, cellName, netName, netDriver, netUsers, err, op,
                   CtxVars>>

\* the store's entry of a bel, cell.bel not updated
SetBelCell(b, c) ==
    /\ pc = "edit" /\ edits < MaxEdits
    /\ bel_to_cell' = [bel_to_cell EXCEPT ![b] = c]
    /\ edits' = edits + 1
    /\ UNCHANGED <<Design, PlacerVars, RouteVars, attrBEL, belStrength, bel,
                   cellName, netName, netDriver, netUsers, err, op,
                   CtxVars>>

\* the name field of a cell or of a net
SetCellName(c, name) ==
    /\ pc = "edit" /\ edits < MaxEdits
    /\ cellName' = [cellName EXCEPT ![c] = name]
    /\ edits' = edits + 1
    /\ UNCHANGED <<Design, PlacerVars, RouteVars, PlaceVars, netName,
                   netDriver, netUsers, err, op,
                   CtxVars>>

SetNetName(n, name) ==
    /\ pc = "edit" /\ edits < MaxEdits
    /\ netName' = [netName EXCEPT ![n] = name]
    /\ edits' = edits + 1
    /\ UNCHANGED <<Design, PlacerVars, RouteVars, PlaceVars, cellName,
                   netDriver, netUsers, err, op,
                   CtxVars>>

\* the driver of a net
SetDriver(n, c) ==
    /\ pc = "edit" /\ edits < MaxEdits
    /\ netDriver' = [netDriver EXCEPT ![n] = c]
    /\ edits' = edits + 1
    /\ UNCHANGED <<Design, PlacerVars, RouteVars, PlaceVars, cellName,
                   netName, netUsers, err, op,
                   CtxVars>>

\* the users of a net: all dropped, or every one entered twice
SetUsers(n, twice) ==
    /\ pc = "edit" /\ edits < MaxEdits
    /\ netUsers' = [netUsers EXCEPT
                       ![n] = IF twice THEN netUsers[n] \o netUsers[n] ELSE <<>>]
    /\ edits' = edits + 1
    /\ UNCHANGED <<Design, PlacerVars, RouteVars, PlaceVars, cellName,
                   netName, netDriver, err, op,
                   CtxVars>>

\* check() runs: it returns, or an assertion fails
Check ==
    /\ pc = "edit"
    /\ pc' = "checked"
    /\ err' = IF check THEN "none" ELSE "InvariantFailure"
    /\ UNCHANGED <<Design, idx, visit_cells, autoplaced, autoOrder, pass, pos,
                   types_used, ti, bi, PlaceVars, RouteVars, LinkVars, CtxVars,
                   op>>

NextCheck ==
    \/ \E n \in RouteNets, w \in Wires \cup {ForeignWire},
          p \in Pips \cup {NullPip} : SetWireEntry(n, w, p)
    \/ \E w \in Wires \cup {ForeignWire}, n \in RouteNets \cup {NullNet} :
          SetWireNet(w, n)
    \/ \E p \in Pips, n \in RouteNets \cup {NullNet} : SetPipNet(p, n)
    \/ \E c \in EditCells, b \in EditBels \cup {NullBel} : SetCellBel(c, b)
    \/ \E b \in EditBels, c \in EditCells \cup {NullCell} : SetBelCell(b, c)
    \/ \E c \in EditCells, name \in EditCells : SetCellName(c, name)
    \/ \E n \in RouteNets, name \in RouteNets : SetNetName(n, name)
    \/ \E n \in RouteNets, c \in EditCells \cup {NullCell} : SetDriver(n, c)
    \/ \E n \in RouteNets, twice \in BOOLEAN : SetUsers(n, twice)
    \/ Check

SpecCheck == InitCheck /\ [][NextCheck]_vars

----------------------------------------------------------------------------
(* Properties of check() *)

\* I1: every cell is stored under its name; a cell with a bel is the cell
\* the binding store maps the bel to
I1 ==
    \A c \in Cells :
        /\ cellName[c] = c
        /\ bel[c] # NullBel => bel_to_cell[bel[c]] = c

\* I4: the net on an output port has the port as driver; the net on an
\* input port has the port exactly once among its users
I4 ==
    \A c \in Cells :
        /\ netDriver[c] = c
        /\ \A k \in DOMAIN inNet[c] :
              Cardinality({i \in DOMAIN netUsers[inNet[c][k]] :
                              netUsers[inNet[c][k]][i] = <<c, k>>}) = 1

\* I5: every bel, wire and pip handle stored in a binding was issued by the
\* catalog
I5 ==
    /\ \A c \in Cells : bel[c] \in Bels \cup {NullBel}
    /\ \A w \in DOMAIN wire_to_net : wire_to_net[w] # NullNet => w \in Wires
    /\ \A p \in DOMAIN pip_to_net : pip_to_net[p] # NullNet => p \in Pips
    /\ \A n \in DOMAIN net_wires :
          \A w \in DOMAIN net_wires[n] :
              w \in Wires /\ net_wires[n][w].pip \in Pips \cup {NullPip}

\* C16: check() fails in every state that violates one of I1-I5 and returns
\* normally in every state where all of them hold.
C16_CheckDecides ==
    pc = "checked" =>
        ((err = "InvariantFailure") <=> ~(I1 /\ I2 /\ I3 /\ I4 /\ I5))

\* check() fails only in states that violate one of I1-I5
CheckFailsOnlyOnViolation ==
    (pc = "checked" /\ err = "InvariantFailure") =>
        ~(I1 /\ I2 /\ I3 /\ I4 /\ I5)

\* a wires entry {pip, STRONG} of a bound wire whose pip the binding store
\* does not map to the net makes check() fail
CheckCatchesUnboundPip ==
    (/\ pc = "checked"
     /\ \E n \in DOMAIN net_wires :
           \E w \in DOMAIN net_wires[n] :
               /\ net_wires[n][w].pip # NullPip
               /\ getBoundPipNet(net_wires[n][w].pip) # n)
        => err = "InvariantFailure"

----------------------------------------------------------------------------
(* The identifier interner: IdString::set, IdString::str and               *)
(* IdString::initialize_add on the two tables of the context               *)

\* the strings handed to the interner
Strings == {"", "A", "B", "C", "LUT"}

\* the indices handed to initialize_add
MaxIndex == 4

\* the two tables of a context
Tables == [str_to_idx |-> idstring_str_to_idx, idx_to_str |-> idstring_idx_to_str]

\* nextpnr.cc 30-40, kept to append on every call
set_alwaysappend(tb, s) ==
    [str_to_idx |-> PutKey(tb.str_to_idx, s, Len(tb.idx_to_str)),
     idx_to_str |-> Append(tb.idx_to_str, s),
     index |-> Len(tb.idx_to_str)]

\* nextpnr.cc 30-40: IdString::set, the tables after the call and the index
\* stored in the IdString
set(tb, s) ==
    IF s \notin DOMAIN tb.str_to_idx
    THEN [str_to_idx |-> PutKey(tb.str_to_idx, s, Len(tb.idx_to_str)),
          idx_to_str |-> Append(tb.idx_to_str, s),
          index |-> Len(tb.idx_to_str)]
    ELSE [str_to_idx |-> tb.str_to_idx,
          idx_to_str |-> tb.idx_to_str,
          index |-> tb.str_to_idx[s]]

\* nextpnr.cc 42: IdString::str, vector::at throws for an index out of range
str(tb, index) ==
    IF index + 1 \in DOMAIN tb.idx_to_str
    THEN tb.idx_to_str[index + 1]
    ELSE "out_of_range"

\* nextpnr.cc 46-52, kept without the assertion on the size of the table
initialize_add_anyidx(tb, s, i) ==
    IF s \in DOMAIN tb.str_to_idx
    THEN [str_to_idx |-> tb.str_to_idx, idx_to_str |-> tb.idx_to_str,
          err |-> "AssertionFailure"]
    ELSE [str_to_idx |-> PutKey(tb.str_to_idx, s, i),
          idx_to_str |-> Append(tb.idx_to_str, s),
          err |-> "none"]

\* nextpnr.cc 46-52: IdString::initialize_add
initialize_add(tb, s, i) ==
    IF s \in DOMAIN tb.str_to_idx
    THEN [str_to_idx |-> tb.str_to_idx, idx_to_str |-> tb.idx_to_str,
          err |-> "AssertionFailure"]
    ELSE IF Len(tb.idx_to_str) # i
    THEN [str_to_idx |-> tb.str_to_idx, idx_to_str |-> tb.idx_to_str,
          err |-> "AssertionFailure"]
    ELSE [str_to_idx |-> PutKey(tb.str_to_idx, s, i),
          idx_to_str |-> Append(tb.idx_to_str, s),
          err |-> "none"]

\* the variables the interner does not touch
NetlistVars ==
    <<Design, PlacerVars, PlaceVars, RouteVars, LinkVars, force, AnnotVars>>

InitIntern == FixedDesign /\ pc = "intern"

\* ctx->id(s): an IdString is set from a string
Intern(s) ==
    /\ pc = "intern"
    /\ LET r == set(Tables, s) IN
       /\ idstring_str_to_idx' = r.str_to_idx
       /\ idstring_idx_to_str' = r.idx_to_str
       /\ op' = [name |-> "set", s |-> s, index |-> r.index]
    /\ err' = "none"
    /\ UNCHANGED NetlistVars

\* a built-in name is registered under the index of the build-time table
InitializeAdd(s, i) ==
    /\ pc = "intern"
    /\ LET r == initialize_add(Tables, s, i) IN
       /\ idstring_str_to_idx' = r.str_to_idx
       /\ idstring_idx_to_str' = r.idx_to_str
       /\ err' = r.err
    /\ op' = [name |-> "initialize_add", s |-> s, index |-> i]
    /\ UNCHANGED NetlistVars

NextIntern ==
    \/ \E s \in Strings : Intern(s)
    \/ \E s \in Strings, i \in 0..MaxIndex : InitializeAdd(s, i)

SpecIntern == InitIntern /\ [][NextIntern]_vars

----------------------------------------------------------------------------
(* Properties of the interner *)

\* the index a call of set returns for s on the tables of the next state
IndexAfter(s) ==
    set([str_to_idx |-> idstring_str_to_idx',
         idx_to_str |-> idstring_idx_to_str'], s).index

\* C17: set gives a string the index it gave it before, gives different
\* strings different indices, leaves the index of every string interned
\* earlier unchanged, and str of the index it returns is the string.
C17_InternRoundTrip ==
    [][op'.name = "set" =>
        /\ op'.index = IndexAfter(op'.s)
        /\ (op'.s \in DOMAIN idstring_str_to_idx =>
                op'.index = idstring_str_to_idx[op'.s])
        /\ \A t \in DOMAIN idstring_str_to_idx :
              /\ t \in DOMAIN idstring_str_to_idx'
              /\ idstring_str_to_idx'[t] = idstring_str_to_idx[t]
        /\ \A t, u \in DOMAIN idstring_str_to_idx' :
              t # u => idstring_str_to_idx'[t] # idstring_str_to_idx'[u]
        /\ str([str_to_idx |-> idstring_str_to_idx',
                idx_to_str |-> idstring_idx_to_str'], op'.index) = op'.s]_vars

\* a string interned earlier was interned again after three other strings
C17_Witness ==
    /\ op.name = "set"
    /\ Len(idstring_idx_to_str) >= 4
    /\ op.index = 1
    /\ str(Tables, op.index) = op.s

\* C18: initialize_add fails when the index is not the next free index of
\* the table or when the string is interned already; when it succeeds the
\* string is registered at the index, and set of the string returns it.
C18_InitializeAdd ==
    [][op'.name = "initialize_add" =>
        IF \/ op'.index # Len(idstring_idx_to_str)
           \/ op'.s \in DOMAIN idstring_str_to_idx
        THEN /\ err' = "AssertionFailure"
             /\ UNCHANGED <<idstring_str_to_idx, idstring_idx_to_str>>
        ELSE /\ err' = "none"
             /\ idstring_str_to_idx'[op'.s] = op'.index
             /\ str([str_to_idx |-> idstring_str_to_idx',
                     idx_to_str |-> idstring_idx_to_str'], op'.index) = op'.s
             /\ IndexAfter(op'.s) = op'.index]_vars

\* a built-in name was registered at index 2
C18_Witness ==
    /\ op.name = "initialize_add"
    /\ err = "none"
    /\ op.index = 2
    /\ idstring_str_to_idx[op.s] = 2

\* initialize_add was refused for a free string with an index past the end
C18_WitnessRefused ==
    /\ op.name = "initialize_add"
    /\ err = "AssertionFailure"
    /\ op.s \notin DOMAIN idstring_str_to_idx
    /\ op.index > Len(idstring_idx_to_str)

----------------------------------------------------------------------------
(* Context::checksum: 32-bit words are pairs <<high half, low half>> of    *)
(* 16-bit numbers, so that sums and shifts wrap at 2^32 as uint32_t does.  *)
(* Every operator on words first tests that its operands are words.        *)

\* nextpnr.cc 126: the start value of every digest
Seed == 123456789

Half == 65536

\* the uint32_t of a number below 2^31
ToWord(v) == <<v \div Half, v % Half>>

\* w is a uint32_t
IsWord(w) == w[1] \in 0..(Half - 1) /\ w[2] \in 0..(Half - 1)

\* uint32_t addition
Add32(a, b) ==
    CASE IsWord(a) /\ IsWord(b) ->
        <<(a[1] + b[1] + ((a[2] + b[2]) \div Half)) % Half,
          (a[2] + b[2]) % Half>>

RECURSIVE XorBits(_, _, _)
XorBits(a, b, n) ==
    IF n = 0 THEN 0
    ELSE ((a + b) % 2) + 2 * XorBits(a \div 2, b \div 2, n - 1)

\* exclusive or of two 4-bit numbers
Xor4 == [a \in 0..15 |-> [b \in 0..15 |-> XorBits(a, b, 4)]]

\* exclusive or of two 16-bit numbers
Xor16(a, b) ==
    Xor4[a % 16][b % 16]
    + 16 * Xor4[(a \div 16) % 16][(b \div 16) % 16]
    + 256 * Xor4[(a \div 256) % 16][(b \div 256) % 16]
    + 4096 * Xor4[a \div 4096][b \div 4096]

Xor32(a, b) == <<Xor16(a[1], b[1]), Xor16(a[2], b[2])>>

\* x << 13, x >> 17 and x << 5 on uint32_t
Shl13(x) == <<(x[1] % 8) * 8192 + (x[2] \div 8), (x[2] % 8) * 8192>>
Shr17(x) == <<0, x[1] \div 2>>
Shl5(x) == <<(x[1] % 2048) * 32 + (x[2] \div 2048), (x[2] % 2048) * 32>>

\* nextpnr.cc 118-120: x ^= x << 13, x ^= x >> 17 and x ^= x << 5
XorShl13(x) == CASE IsWord(x) -> Xor32(x, Shl13(x))
XorShr17(x) == CASE IsWord(x) -> Xor32(x, Shr17(x))
XorShl5(x) == CASE IsWord(x) -> Xor32(x, Shl5(x))

\* nextpnr.cc 116-122
xorshift32(x) == XorShl5(XorShr17(XorShl13(x)))

\* x = xorshift32(x + xorshift32(v)), the step every field is mixed in with
Mix(x, v) ==
    CASE IsWord(x) /\ IsWord(v) -> xorshift32(Add32(x, xorshift32(v)))

\* the fields ws mixed into x one after the other
RECURSIVE MixAll(_, _)
MixAll(x, ws) ==
    CASE IsWord(x) ->
        IF ws = <<>> THEN x ELSE MixAll(Mix(x, Head(ws)), Tail(ws))

\* IdString::index of the strings of the model: ports, types and the
\* attribute key BEL
index(name) ==
    CASE name = "O" -> 10
      [] name = "LUT" -> 20
      [] name = "FF" -> 21
      [] name = "DSP" -> 22
      [] name = "IO" -> 23
      [] name = "BEL" -> 30

\* IdString::index of the name of a cell or of a net
NameIndex(c) == c

\* the index of the input port that reads inNet[c][k]
InPortIndex(k) == 10 + k

\* PortType
PORT_IN == 0
PORT_OUT == 1

\* the numbers the architecture gives a bel, a wire, a pip and a delay
getBelChecksum(b) == b
getWireChecksum(w) == w
getPipChecksum(p) == p
getDelayChecksum(v) == v

\* the budget of every driver and user before timing analysis ran
NoBudget == 0

\* the bytes of the string a bel name is written as
NameBytes(name) == <<48 + name[1], 48 + name[2], index(name[3])>>

\* the containers checksum() iterates and sums over
MapKinds == {"nets", "cells", "attrs", "params", "wires", "ports", "pins"}

\* the orders a hash-mapped container may iterate its keys in, told from
\* the ascending order
IterOrders == {"forward", "backward", "rotated", "swapped"}

RECURSIVE SortedSeq(_)
SortedSeq(S) ==
    IF S = {} THEN <<>>
    ELSE <<SetMin(S)>> \o SortedSeq(S \ {SetMin(S)})

\* the keys S of a container in the order o
Iterate(S, o) ==
    LET q == SortedSeq(S) IN
    CASE o = "forward" -> q
      [] o = "backward" -> [i \in 1..Len(q) |-> q[Len(q) + 1 - i]]
      [] o = "rotated" -> IF q = <<>> THEN q ELSE Tail(q) \o <<Head(q)>>
      [] o = "swapped" ->
            IF Len(q) < 2 THEN q ELSE <<q[2], q[1]>> \o SubSeq(q, 3, Len(q))

\* a roll-up that mixes every digest into the running value in turn
RECURSIVE SumFrom_mixing(_, _)
SumFrom_mixing(acc, ds) ==
    CASE IsWord(acc) ->
        IF ds = <<>> THEN acc
        ELSE SumFrom_mixing(Mix(acc, Head(ds)), Tail(ds))

\* sum += x over the digests ds, in the order of the sequence
RECURSIVE SumFrom(_, _)
SumFrom(acc, ds) ==
    CASE IsWord(acc) ->
        IF ds = <<>> THEN acc ELSE SumFrom(Add32(acc, Head(ds)), Tail(ds))

\* the words of the bytes of a string
Words(bytes) == [i \in DOMAIN bytes |-> ToWord(bytes[i])]

\* nextpnr.cc 148-151, 192-195, 202-205: the digest of the entry of a map
\* from key indices to strings
StringDigest(key, bytes) ==
    MixAll(ToWord(Seed), <<ToWord(key)>> \o Words(bytes))

\* nextpnr.cc 146-153, 190-197, 200-207: the roll-up of a map from key
\* indices to strings, iterated in order o
StringMapSum(m, o) ==
    LET keys == Iterate(DOMAIN m, o) IN
    SumFrom(ToWord(0),
            [i \in 1..Len(keys) |-> StringDigest(keys[i], m[keys[i]])])

\* nextpnr.cc 140-143: the fields of a user of a net
UserFields(u) ==
    <<ToWord(NameIndex(cellName[u[1]])), ToWord(InPortIndex(u[2])),
      ToWord(getDelayChecksum(NoBudget))>>

\* nextpnr.cc 139-144: the fields of the users of a net, in the order of
\* the vector
RECURSIVE UsersFields(_)
UsersFields(us) ==
    IF us = <<>> THEN <<>> ELSE UserFields(Head(us)) \o UsersFields(Tail(us))

\* nextpnr.cc 158-161: the digest of the entry of wire w of net n
WireDigest(n, w) ==
    MixAll(ToWord(Seed),
           <<ToWord(getWireChecksum(w)),
             ToWord(getPipChecksum(net_wires[n][w].pip)),
             ToWord(StrengthRank(net_wires[n][w].strength))>>)

\* nextpnr.cc 156-163: the roll-up of the wires of net n
WireSum(n, o) ==
    LET keys == Iterate(DOMAIN net_wires[n], o) IN
    SumFrom(ToWord(0), [i \in 1..Len(keys) |-> WireDigest(n, keys[i])])

\* nextpnr.cc 131-164: the digest of the net stored under key n
NetDigest(n, sel) ==
    MixAll(ToWord(Seed),
           <<ToWord(NameIndex(n)), ToWord(NameIndex(netName[n]))>>
           \o (IF netDriver[n] # NullCell
               THEN <<ToWord(NameIndex(cellName[netDriver[n]])),
                      ToWord(index("O"))>>
               ELSE <<ToWord(0)>>)
           \o <<ToWord(getDelayChecksum(NoBudget))>>
           \o UsersFields(netUsers[n])
           \o <<StringMapSum(netAttrs[n], sel["attrs"]),
                WireSum(n, sel["wires"])>>)

\* the ports of cell c: port index -> net and type
Ports(c) ==
    [p \in {index("O")} \cup {InPortIndex(k) : k \in DOMAIN inNet[c]} |->
        IF p = index("O")
        THEN [net |-> c, type |-> PORT_OUT]
        ELSE [net |-> inNet[c][p - 10], type |-> PORT_IN]]

\* nextpnr.cc 180-185: the digest of port p of cell c
PortDigest(c, p) ==
    MixAll(ToWord(Seed),
           <<ToWord(p), ToWord(p)>>
           \o (IF Ports(c)[p].net # NullNet
               THEN <<ToWord(NameIndex(netName[Ports(c)[p].net]))>>
               ELSE <<>>)
           \o <<ToWord(Ports(c)[p].type)>>)

\* nextpnr.cc 178-187: the roll-up of the ports of cell c
PortSum(c, o) ==
    LET keys == Iterate(DOMAIN Ports(c), o) IN
    SumFrom(ToWord(0), [i \in 1..Len(keys) |-> PortDigest(c, keys[i])])

\* nextpnr.cc 213-219: the roll-up of the pins of cell c
PinSum(c, o) ==
    LET keys == Iterate(DOMAIN pins[c], o) IN
    SumFrom(ToWord(0),
            [i \in 1..Len(keys) |->
                MixAll(ToWord(Seed),
                       <<ToWord(keys[i]), ToWord(pins[c][keys[i]])>>)])

\* CellInfo::attrs of cell c: the attribute BEL and the others
Attrs(c) ==
    IF attrBEL[c] = NoAttr THEN cellAttrs[c]
    ELSE PutKey(cellAttrs[c], index("BEL"), NameBytes(attrBEL[c]))

\* nextpnr.cc 173-220: the digest of the cell stored under key c
CellDigest(c, sel) ==
    MixAll(ToWord(Seed),
           <<ToWord(NameIndex(c)), ToWord(NameIndex(cellName[c])),
             ToWord(index(cellType[c])),
             PortSum(c, sel["ports"]),
             StringMapSum(Attrs(c), sel["attrs"]),
             StringMapSum(params[c], sel["params"]),
             ToWord(getBelChecksum(bel[c])),
             ToWord(StrengthRank(belStrength[c])),
             PinSum(c, sel["pins"])>>)

\* nextpnr.cc 124-227: Context::checksum with every container iterated in
\* the order sel gives its kind
checksum(sel) ==
    LET nets == Iterate(DOMAIN net_wires, sel["nets"])
        cells == Iterate(Cells, sel["cells"])
    IN MixAll(xorshift32(ToWord(Seed)),
              <<SumFrom(ToWord(0),
                        [i \in 1..Len(nets) |-> NetDigest(nets[i], sel)]),
                SumFrom(ToWord(0),
                        [i \in 1..Len(cells) |-> CellDigest(cells[i], sel)])>>)

\* every container iterated in ascending order
Forward == [k \in MapKinds |-> "forward"]

\* the iteration orders of a run: all containers in one order, or the
\* containers of one kind in an order of their own
Selectors ==
    {[k \in MapKinds |-> o] : o \in IterOrders}
    \cup {[Forward EXCEPT ![k] = o] : k \in MapKinds, o \in IterOrders}
    \cup {[[k \in MapKinds |-> "backward"] EXCEPT ![j] = "rotated"] :
             j \in MapKinds}

\* no attribute, parameter or pin map on any cell or net
NoAnnot == [c \in Cells |-> <<>>]

\* what the loader leaves on the netlist
Annotations ==
    {[netAttrs |-> NoAnnot, cellAttrs |-> NoAnnot, params |-> NoAnnot,
      pins |-> NoAnnot],
     [netAttrs |-> [NoAnnot EXCEPT ![1] = (31 :> <<1>>) @@ (32 :> <<0, 1>>)],
      cellAttrs |-> [NoAnnot EXCEPT ![1] = (31 :> <<65>>) @@ (33 :> <<66, 67>>)],
      params |-> [NoAnnot EXCEPT
                     ![2] = (34 :> <<1, 0>>) @@ (35 :> <<15>>) @@ (36 :> <<>>)],
      pins |-> [NoAnnot EXCEPT ![3] = (11 :> 12) @@ (12 :> 11)]],
     [netAttrs |-> [NoAnnot EXCEPT
                       ![2] = (31 :> <<7>>) @@ (32 :> <<7>>) @@ (33 :> <<7, 7>>)],
      cellAttrs |-> [c \in Cells |-> (31 :> <<c>>) @@ (32 :> <<c, c>>)],
      params |-> [c \in Cells |-> (34 :> <<255>>) @@ (35 :> <<0>>)],
      pins |-> [c \in Cells |-> (10 :> 11) @@ (11 :> 12) @@ (12 :> 10)]]}

\* the calls a router makes, one after the other: pip NullPip for bindWire
RouteScripts ==
    {<<>>,
     <<[wire |-> 1, pip |-> NullPip, net |-> 1, strength |-> "STRONG"],
       [wire |-> NullWire, pip |-> 1, net |-> 1, strength |-> "WEAK"],
       [wire |-> 3, pip |-> NullPip, net |-> 1, strength |-> "WEAK"]>>,
     <<[wire |-> 1, pip |-> NullPip, net |-> 2, strength |-> "WEAK"],
       [wire |-> NullWire, pip |-> 2, net |-> 2, strength |-> "STRONG"],
       [wire |-> 2, pip |-> NullPip, net |-> 1, strength |-> "STRONG"]>>}

RECURSIVE RunRoute(_, _)
RunRoute(rt, calls) ==
    IF calls = <<>> THEN rt
    ELSE LET k == Head(calls) IN
         RunRoute(IF k.pip = NullPip
                  THEN bindWire(rt, k.wire, k.net, k.strength)
                  ELSE bindPip(rt, k.pip, k.net, k.strength),
                  Tail(calls))

InitSum == FixedDesign /\ pc = "load"

\* the loader fills the attributes, parameters and pin maps
LoadAnnotations(a) ==
    /\ pc = "load"
    /\ pc' = "place"
    /\ netAttrs' = a.netAttrs
    /\ cellAttrs' = a.cellAttrs
    /\ params' = a.params
    /\ pins' = a.pins
    /\ UNCHANGED <<Design, idx, visit_cells, autoplaced, autoOrder, pass, pos,
                   types_used, ti, bi, PlaceVars, RouteVars, LinkVars, err,
                   idstring_str_to_idx, idstring_idx_to_str, force, op>>

\* place_design_heuristic runs to its end, or the design stays unplaced
PlaceDesign(run) ==
    /\ pc = "place"
    /\ pc' = "route"
    /\ SetCtx(IF run
              THEN RunPasses(RunSeeding(RunConstraints(Loaded, 1), 1),
                             InsertionOrder(Cells, 1), 0)
              ELSE Ctx)
    /\ UNCHANGED <<Design, idx, visit_cells, autoplaced, autoOrder, pass, pos,
                   types_used, ti, bi, RouteVars, LinkVars, CtxVars, op>>

\* the router makes the calls of a script
RouteDesign(calls) ==
    /\ pc = "route"
    /\ pc' = "sum"
    /\ SetRt(RunRoute(Rt, calls))
    /\ UNCHANGED <<Design, idx, visit_cells, autoplaced, autoOrder, pass, pos,
                   types_used, ti, bi, PlaceVars, LinkVars, CtxVars, op>>

\* checksum() runs with its containers iterating in the orders sel
Checksum(sel) ==
    /\ pc = "sum"
    /\ pc' = "summed"
    /\ op' = [name |-> "checksum", sel |-> sel, cksum |-> checksum(sel)]
    /\ UNCHANGED <<Design, idx, visit_cells, autoplaced, autoOrder, pass, pos,
                   types_used, ti, bi, PlaceVars, RouteVars, LinkVars, CtxVars,
                   err>>

NextSum ==
    \/ \E a \in Annotations : LoadAnnotations(a)
    \/ \E run \in BOOLEAN : PlaceDesign(run)
    \/ \E calls \in RouteScripts : RouteDesign(calls)
    \/ \E sel \in Selectors : Checksum(sel)

SpecSum == InitSum /\ [][NextSum]_vars

----------------------------------------------------------------------------
(* Properties of checksum() *)

\* C19: for a fixed design state the digest is the same for every iteration
\* order of the nets map, the cells map and the attrs, params, wires, ports
\* and pins maps of every entity.
C19_ChecksumStable ==
    op.name = "checksum" => op.cksum = checksum(Forward)

\* a placed design with three wires on one net and three parameters on one
\* cell was digested with nets backward and wires rotated
C19_Witness ==
    /\ op.name = "checksum"
    /\ op.sel["nets"] = "backward" /\ op.sel["wires"] = "rotated"
    /\ \E n \in DOMAIN net_wires : Cardinality(DOMAIN net_wires[n]) = 3
    /\ \E c \in Cells : Cardinality(DOMAIN params[c]) = 3
    /\ \A c \in Cells : bel[c] # NullBel /\ attrBEL[c] # NoAttr

----------------------------------------------------------------------------
(* The host: main.cc sets the force flag, calls ctx->place(), then check() *)
(* and goes on to route.  ctx->place() runs one of the placers of place.cc *)
(* and turns an error the placer logged into the return value false.       *)

\* the errors place.cc raises through log_error
PlacementErrors ==
    {"UnknownBel", "TypeMismatch", "UnknownBelType", "ResourceExhausted",
     "PlacementFailure"}

\* the errors raised by a failed assertion
AssertionErrors == {"AlreadyBound", "NotBound", "InvariantFailure"}

\* main.cc 175-176 without the test of the flag
AfterPlace_noforce(ret, f) == IF ~ret THEN "fatal" ELSE "check"

\* main.cc 175-178 without the call of check() after place()
AfterPlace_nocheck(ret, f) == IF ~ret /\ ~f THEN "fatal" ELSE "routing"

\* main.cc 175-176: if (!ctx->place() && !ctx->force) log_error(...)
AfterPlace(ret, f) == IF ~ret /\ ~f THEN "fatal" ELSE "check"

InitHost == InitDesign /\ pc = "options"

\* main.cc 133-135 and 175: the flag is set from the command line and
\* place() enters one of the placers
ParseOptions(f, entry) ==
    /\ pc = "options"
    /\ force' = f
    /\ pc' = entry
    /\ UNCHANGED <<Design, idx, visit_cells, autoplaced, autoOrder, pass, pos,
                   types_used, ti, bi, PlaceVars, RouteVars, LinkVars, err,
                   idstring_str_to_idx, idstring_idx_to_str, AnnotVars, op>>

\* ctx->place() returns: true when the placer ran to its end, false when
\* it logged an error; a failed assertion is not caught
PlaceReturns ==
    /\ pc \in {"done", "error"}
    /\ op' = [name |-> "place", ret |-> (err = "none")]
    /\ pc' = IF err \in AssertionErrors THEN "aborted" ELSE "returned"
    /\ UNCHANGED <<Design, idx, visit_cells, autoplaced, autoOrder, pass, pos,
                   types_used, ti, bi, PlaceVars, RouteVars, LinkVars, err,
                   CtxVars>>

\* main.cc 175-176: the host stops on a failed placement unless force is set
HostAfterPlace ==
    /\ pc = "returned"
    /\ pc' = AfterPlace(op.ret, force)
    /\ UNCHANGED <<Design, idx, visit_cells, autoplaced, autoOrder, pass, pos,
                   types_used, ti, bi, PlaceVars, RouteVars, LinkVars, err,
                   CtxVars, op>>

\* a write to the bel of cell 1 past the binding store, before check()
StrayWrite(b) ==
    /\ pc = "check" /\ edits = 0
    /\ bel' = [bel EXCEPT ![1] = b]
    /\ edits' = 1
    /\ UNCHANGED <<Design, PlacerVars, RouteVars, attrBEL, belStrength,
                   bel_to_cell, cellName, netName, netDriver, netUsers, err,
                   op, CtxVars>>

\* main.cc 177-178: check() runs; the host goes on to route when it returns
HostCheck ==
    /\ pc = "check"
    /\ pc' = IF check THEN "routing" ELSE "aborted"
    /\ err' = IF check THEN err ELSE "InvariantFailure"
    /\ UNCHANGED <<Design, idx, visit_cells, autoplaced, autoOrder, pass, pos,
                   types_used, ti, bi, PlaceVars, RouteVars, LinkVars, CtxVars,
                   op>>

NextHost ==
    \/ \E f \in BOOLEAN, entry \in {"constraints", "pd_constraints"} :
          ParseOptions(f, entry)
    \/ Next
    \/ NextPd
    \/ PlaceReturns
    \/ HostAfterPlace
    \/ \E b \in Bels : StrayWrite(b)
    \/ HostCheck

SpecHost == InitHost /\ [][NextHost]_vars

----------------------------------------------------------------------------
(* Properties of the host *)

\* the host has stopped or gone on to route
HostEnded == pc \in {"fatal", "aborted", "routing"}

\* C20: with force set an error raised during placement is logged, place()
\* returns false and the run goes on; a binding-store precondition error or
\* an invariant failure aborts the run whatever force is; without force
\* every error raised during placement is fatal.
C20_ForceDowngrades ==
    /\ (op.name = "place" /\ pc # "aborted" /\ err \in PlacementErrors)
          => ~op.ret
    /\ (HostEnded /\ err \in PlacementErrors)
          => pc = (IF force THEN "routing" ELSE "fatal")
    /\ (HostEnded /\ err \in AssertionErrors) => pc = "aborted"
    /\ pc = "aborted" => err \in AssertionErrors
    /\ pc = "fatal" => (~force /\ err \in PlacementErrors)

\* with force set the run went on to route past a placement failure
C20_Witness ==
    /\ pc = "routing" /\ force
    /\ err = "PlacementFailure"
    /\ op.name = "place" /\ ~op.ret

\* without force a placement error was fatal
C20_WitnessFatal == pc = "fatal" /\ ~force /\ err = "ResourceExhausted"

\* with force set a binding-store precondition error aborted the run
C20_WitnessAbort == pc = "aborted" /\ force /\ err = "AlreadyBound"

\* with force set an invariant failure aborted the run
C20_WitnessInvariant == pc = "aborted" /\ force /\ err = "InvariantFailure"

----------------------------------------------------------------------------
(* A design of one cell without a BEL attribute on a chip of any size up   *)
(* to WideBels bels, given to either placer.                               *)

InitSingle ==
    /\ cellType \in [1..1 -> CellTypes]
    /\ \E n \in 1..WideBels : bel_to_cell = [b \in 1..n |-> NullCell]
    /\ clock = [c \in Cells |-> "clkA"]
    /\ inNet = [c \in Cells |-> <<>>]
    /\ loadedBEL = [c \in Cells |-> NoAttr]
    /\ NothingPlaced
    /\ pc \in {"constraints", "pd_constraints"}

NextSingle ==
    \/ Next
    \/ NextPd

SpecSingle == InitSingle /\ [][NextSingle]_vars

\* the bels of the type of cell c, in catalog order
MatchingBels(c) ==
    {b \in Bels : getBelType(b) = belTypeFromId(cellType[c])}

\* the run went through place_design_heuristic
RanHeuristic == pass = 3

\* C21: a single unconstrained cell on an otherwise empty chip ends on the
\* first bel, in catalog order, whose type is the cell's type.
C21_FirstMatchingBel ==
    pc = "done" =>
        \A c \in Cells :
            /\ bel[c] \in MatchingBels(c)
            /\ \A b \in MatchingBels(c) : bel[c] <= b

\* place_design alone puts the single cell on the first bel of its type
C21_SeedingFirst ==
    (pc = "done" /\ ~RanHeuristic) =>
        \A c \in Cells :
            /\ bel[c] \in MatchingBels(c)
            /\ \A b \in MatchingBels(c) : bel[c] <= b

\* place_design_heuristic puts it on the last bel of its type
C21_HeuristicLast ==
    (pc = "done" /\ RanHeuristic) =>
        \A c \in Cells :
            /\ bel[c] \in MatchingBels(c)
            /\ \A b \in MatchingBels(c) : bel[c] >= b

----------------------------------------------------------------------------
(* Properties of the seeding cursor of place_design *)

\* the cells place_design has seeded so far
Seeded == {c \in Cells : loadedBEL[c] = NoAttr /\ bel[c] # NullBel}

\* C22: in the seeding of place_design the cursor of a type only moves
\* forward: a cell receives the next bel at or after the cursor that has the
\* type, is available and is valid for the cell, that bel lies after the bel
\* of every cell of the type seeded before, and no bel before the cursor is
\* given to a later cell.
C22_ForwardCursor ==
    [][(pc = "pd_seed" /\ ti' = ti) =>
          /\ bi' >= bi
          /\ \A c \in Cells :
                (bel[c] = NullBel /\ bel'[c] # NullBel) =>
                    /\ bel'[c] >= bi
                    /\ bi' = bel'[c] + 1
                    /\ IsCandidate(Ctx, c, bel'[c])
                    /\ \A b \in bi..(bel'[c] - 1) : ~IsCandidate(Ctx, c, b)
                    /\ \A d \in Seeded :
                          cellType[d] = cellType[c] => bel[d] < bel'[c]]_vars

\* the cursor stepped over a free bel of the type, which stays free while a
\* later cell of the type is seeded or finds the cursor at its end
C22_Witness ==
    /\ pc \in {"pd_seed", "error"}
    /\ Cardinality(Seeded) >= 2
    /\ \E b \in Bels :
          /\ b < bi
          /\ bel_to_cell[b] = NullCell
          /\ getBelType(b) = belTypeFromId(types_used[ti])
          /\ \E c, d \in Seeded :
                /\ c < d /\ cellType[c] = cellType[d]
                /\ cellType[c] = types_used[ti]
                /\ bel[c] < b /\ b < bel[d]

\* the cursor is at its end for a cell that a bel stepped over would fit
C22_WitnessLost ==
    /\ pc = "error" /\ err = "ResourceExhausted"
    /\ \E b \in Bels : b < bi /\ IsCandidate(Ctx, idx, b)

----------------------------------------------------------------------------
(* Properties of the distance place_cell computes *)

\* the cell the next call of place_cell is for, if the placer is at one
NextPlaced ==
    IF pc = "autoplace" /\ err = "none" /\ idx <= LastCell
    THEN (IF bel[idx] = NullBel THEN {idx} ELSE {})
    ELSE IF pc = "replace" /\ err = "none" /\ pass < 3 /\ pos <= Len(autoOrder)
         THEN {autoOrder[pos]}
         ELSE {}

\* the cell the last call of place_cell has placed, if one has just returned
JustPlaced ==
    IF pc = "replace" /\ err = "none" /\ pos > 1
    THEN {autoOrder[pos - 1]}
    ELSE IF pc = "autoplace" /\ err = "none" /\ idx > 1
         THEN {idx - 1} \cap autoplaced
         ELSE {}

\* the drivers of the nets on the input ports of cell c, one per port
InputDrivers(c) == [k \in DOMAIN inNet[c] |-> Driver(inNet[c][k])]

\* the users of the net on the output port of cell c, none when that net
\* has five users or more
OutputUsers(c) ==
    IF Len(Users(inNet, c)) < 5 THEN Users(inNet, c) ELSE <<>>

\* the sum of the distances from bel b to the drivers of c's inputs and to
\* the users of c's output
NeighbourCost(st, c, b) ==
    SumDistance(st, b, InputDrivers(c)) + SumDistance(st, b, OutputUsers(c))

\* C23: the cost place_cell computes for a candidate bel of cell c is the
\* sum of the distances to the placed drivers of the nets on c's input
\* ports and to the placed users of the net on c's output port when that net
\* has fewer than 5 users; no other cell contributes.
C23_CostNeighbours ==
    \A c \in NextPlaced : \A b \in Bels :
        LET u == Unplace(Ctx, c) IN
        IsCandidate(u, c, b) => BelDistance(u, c, b) = NeighbourCost(u, c, b)

\* the placement st with the users of the net cell c drives taken off
WithoutUsers(st, c) ==
    [st EXCEPT !.bel = [d \in Cells |->
        IF d \in Range(Users(inNet, c)) THEN NullBel ELSE st.bel[d]]]

\* what the placed users of the net cell c drives add to the cost of bel b
UserPart(st, c, b) ==
    BelDistance(st, c, b) - BelDistance(WithoutUsers(st, c), c, b)

\* C24: when the cell being placed drives a net of 5 users or more, the
\* placed users of that net add nothing to the cost of any candidate bel;
\* when the net has 4 users or fewer, the distance to every placed user is
\* added.
C24_FanoutDamping ==
    \A c \in NextPlaced : \A b \in Bels :
        LET u == Unplace(Ctx, c) IN
        IsCandidate(u, c, b) =>
            UserPart(u, c, b) =
                (IF Len(Users(inNet, c)) >= 5 THEN 0
                 ELSE SumDistance(u, b, Users(inNet, c)))

\* a cell driving 5 users or more has been scored on a bel away from a
\* placed user
C24_Witness ==
    \E c \in JustPlaced : \E b \in Bels :
        LET u == Unplace(Ctx, c) IN
        /\ IsCandidate(u, c, b)
        /\ Len(Users(inNet, c)) >= 5
        /\ SumDistance(u, b, Users(inNet, c)) > 0

\* a cell driving 4 users has been scored on a bel away from a placed user
C24_WitnessFour ==
    \E c \in JustPlaced : \E b \in Bels :
        LET u == Unplace(Ctx, c) IN
        /\ IsCandidate(u, c, b)
        /\ Len(Users(inNet, c)) = 4
        /\ UserPart(u, c, b) > 0

\* C25: a call of place_cell that succeeds binds the cell to a bel that has
\* the cell's type, was available and valid for the cell, and whose cost is
\* minimal among all such bels; among the bels of that minimal cost it is
\* the last one in catalog order.
C25_MinimalCostLast ==
    [][\A c \in NextPlaced :
          bel'[c] # NullBel =>
              LET u == Unplace(Ctx, c) IN
              /\ IsCandidate(u, c, bel'[c])
              /\ bel_to_cell'[bel'[c]] = c
              /\ \A b \in Bels :
                    IsCandidate(u, c, b) =>
                        /\ BelDistance(u, c, bel'[c]) <= BelDistance(u, c, b)
                        /\ BelDistance(u, c, b) = BelDistance(u, c, bel'[c])
                              => b <= bel'[c]]_vars

\* place_cell has passed over an earlier bel of the same cost as the bel it
\* chose, both at a distance from a placed neighbour
C25_Witness ==
    \E c \in JustPlaced :
        LET u == Unplace(Ctx, c) IN
        /\ BelDistance(u, c, bel[c]) > 0
        /\ \E b \in Bels :
              /\ IsCandidate(u, c, b)
              /\ b < bel[c]
              /\ BelDistance(u, c, b) = BelDistance(u, c, bel[c])

\* place_cell has passed over a later bel of higher cost than the bel it
\* chose
C25_WitnessCostlier ==
    \E c \in JustPlaced :
        LET u == Unplace(Ctx, c) IN
        \E b \in Bels :
            /\ IsCandidate(u, c, b)
            /\ b > bel[c]
            /\ BelDistance(u, c, b) > BelDistance(u, c, bel[c])

----------------------------------------------------------------------------
(* Properties of the improvement passes *)

\* C26: the improvement phase makes exactly 3 passes; each pass re-places
\* every automatically placed cell exactly once, in the insertion order of
\* the cells, and visits no constraint-placed cell.
C26_ThreePassesInOrder ==
    /\ pass <= 3
    /\ (pc = "done" => pass = 3)
    /\ (pc = "replace" =>
          /\ autoOrder = InsertionOrder(autoplaced, 1)
          /\ Range(autoOrder) \cap Range(visit_cells) = {})

\* three passes, every automatically placed cell once in each, in some
\* order, and no constraint-placed cell
C26_ThreePassesSomeOrder ==
    /\ pass <= 3
    /\ (pc = "done" => pass = 3)
    /\ (pc = "replace" =>
          /\ Range(autoOrder) = autoplaced
          /\ Len(autoOrder) = Cardinality(autoplaced)
          /\ pos <= Len(autoOrder) + 1
          /\ Range(autoOrder) \cap Range(visit_cells) = {})

----------------------------------------------------------------------------
(* The host flow of main.cc 157-179 from the loaded design to the start of *)
(* the router: pack, assign_budget, check, place, check, route.  pack()    *)
(* and assign_budget() are defined outside main.cc: pack() returns either  *)
(* value and neither touches the placement.                                *)

\* main.cc 162-163: if (!ctx->pack() && !ctx->force) log_error(...)
AfterPack(ret, f) == IF ~ret /\ ~f THEN "fatal" ELSE "budget"

\* main.cc 171-175: check() returned, place() is entered
AfterPreCheck(ok, entry) == IF ok THEN entry ELSE "aborted"

InitFlow == InitDesign /\ pc = "loaded"

\* main.cc 133-135, 157-161: the flag is set, the design is loaded
HostOptions(f) ==
    /\ pc = "loaded"
    /\ force' = f
    /\ pc' = "pack"
    /\ UNCHANGED <<Design, idx, visit_cells, autoplaced, autoOrder, pass, pos,
                   types_used, ti, bi, PlaceVars, RouteVars, LinkVars, err,
                   idstring_str_to_idx, idstring_idx_to_str, AnnotVars, op>>

\* main.cc 162-163: pack() returns, the host stops on false unless forced
HostPack(ret) ==
    /\ pc = "pack"
    /\ op' = [name |-> "pack", ret |-> ret]
    /\ pc' = AfterPack(ret, force)
    /\ UNCHANGED <<Design, idx, visit_cells, autoplaced, autoOrder, pass, pos,
                   types_used, ti, bi, PlaceVars, RouteVars, LinkVars, err,
                   CtxVars>>

\* main.cc 164-170: the target frequency is taken, assign_budget() runs
HostBudget ==
    /\ pc = "budget"
    /\ pc' = "precheck"
    /\ UNCHANGED <<Design, idx, visit_cells, autoplaced, autoOrder, pass, pos,
                   types_used, ti, bi, PlaceVars, RouteVars, LinkVars, err,
                   CtxVars, op>>

\* main.cc 171-175: check() runs, then place() enters one of the placers
HostPreCheck(entry) ==
    /\ pc = "precheck"
    /\ pc' = AfterPreCheck(check, entry)
    /\ err' = IF check THEN err ELSE "InvariantFailure"
    /\ UNCHANGED <<Design, idx, visit_cells, autoplaced, autoOrder, pass, pos,
                   types_used, ti, bi, PlaceVars, RouteVars, LinkVars, CtxVars,
                   op>>

NextFlow ==
    \/ \E f \in BOOLEAN : HostOptions(f)
    \/ \E ret \in BOOLEAN : HostPack(ret)
    \/ HostBudget
    \/ \E entry \in {"constraints", "pd_constraints"} : HostPreCheck(entry)
    \/ Next
    \/ NextPd
    \/ PlaceReturns
    \/ HostAfterPlace
    \/ \E b \in Bels : StrayWrite(b)
    \/ HostCheck

SpecFlow == InitFlow /\ [][NextFlow]_vars

\* the states in which a placer runs
Placing ==
    pc \in {"constraints", "autoplace", "replace", "pd_constraints", "pd_seed"}

\* C27: check() runs after packing and budget assignment and before
\* placement starts, and again after placement returned and before routing
\* starts; routing does not start after place() returned false unless
\* force is set.
C27_CheckBetweenPhases ==
    [][/\ (pc = "budget" /\ pc' # pc) => pc' = "precheck"
       /\ (~Placing /\ Placing') => (pc = "precheck" /\ check)
       /\ (pc = "returned" /\ pc' # pc) => pc' \in {"check", "fatal"}
       /\ (pc # "routing" /\ pc' = "routing") =>
             /\ pc = "check" /\ check
             /\ op.name = "place"
             /\ op.ret \/ force]_vars

\* routing starts after pack and place returned true and both calls of
\* check() passed
C27_Witness ==
    /\ pc = "routing" /\ ~force
    /\ op.name = "place" /\ op.ret
    /\ \A c \in Cells : bel[c] # NullBel

\* with force set routing starts after pack failed and place returned false
C27_WitnessForced ==
    /\ pc = "routing" /\ force
    /\ op.name = "place" /\ ~op.ret
    /\ err = "ResourceExhausted"

\* without force the host stops after place returned false
C27_WitnessStopped ==
    /\ pc = "fatal" /\ ~force
    /\ op.name = "place" /\ ~op.ret

----------------------------------------------------------------------------
(* place_cell called on any cell of the design, placed or not, once the    *)
(* constraint pass has bound the pinned cells.                             *)

InitCell == InitDesign /\ pc = "constraints"

\* place.cc 127-182: one call of place_cell
CallPlaceCell(c) ==
    /\ pc = "autoplace" /\ err = "none"
    /\ LET r == place_cell(Ctx, c) IN
       /\ SetCtx(r)
       /\ pc' = IF r.err = "none" THEN pc ELSE "error"
    /\ op' = [name |-> "place_cell", cell |-> c, old |-> bel[c]]
    /\ UNCHANGED <<Design, idx, HeurVars, PdVars, RouteVars, LinkVars, CtxVars>>

NextCell ==
    \/ ConstrainCell
    \/ ConstraintsDone
    \/ \E c \in Cells : CallPlaceCell(c)

SpecCell == InitCell /\ [][NextCell]_vars

\* a call of place_cell has returned
Called == op.name = "place_cell"

\* cell c has no bel of its type that is free and valid, c itself taken off
NoCandidate(st, c) == \A b \in Bels : ~IsCandidate(Unplace(st, c), c, b)

\* C28: when no bel of the cell's type is both available and valid for the
\* cell, place_cell raises PlacementFailure and binds nothing: no bel is
\* bound to the cell, and a cell that was placed before the call has been
\* unbound and is left without a bel.
C28_FailureBindsNothing ==
    [][(pc = "autoplace" /\ NoCandidate(Ctx, op'.cell)) =>
          /\ err' = "PlacementFailure"
          /\ bel'[op'.cell] = NullBel
          /\ \A b \in Bels : bel_to_cell'[b] # op'.cell
          /\ bel[op'.cell] # NullBel =>
                bel_to_cell'[bel[op'.cell]] = NullCell]_vars

\* place_cell has failed on a cell that was placed: the cell is unbound
C28_Witness ==
    /\ Called /\ err = "PlacementFailure"
    /\ op.old # NullBel
    /\ bel[op.cell] = NullBel
    /\ bel_to_cell[op.old] = NullCell

\* place_cell has failed on a cell that was not placed
C28_WitnessUnplaced ==
    /\ Called /\ err = "PlacementFailure"
    /\ op.old = NullBel

\* the number of bels the store m has bound
BoundBels(m) == Cardinality({b \in DOMAIN m : m[b] # NullCell})

\* C29: a call of place_cell on cell c changes only c's bel, c's BEL
\* attribute and the store entries of c's old and new bel; the bel of every
\* other cell, every other store entry and the driver, users and wires of
\* every net stay as they were, and a successful re-placement leaves the
\* number of bound bels as it was.
C29_Frame ==
    [][pc = "autoplace" =>
          /\ \A d \in Cells \ {op'.cell} :
                /\ bel'[d] = bel[d]
                /\ attrBEL'[d] = attrBEL[d]
                /\ belStrength'[d] = belStrength[d]
          /\ \A b \in Bels \ {bel[op'.cell], bel'[op'.cell]} :
                bel_to_cell'[b] = bel_to_cell[b]
          /\ netDriver' = netDriver /\ netUsers' = netUsers
          /\ net_wires' = net_wires
          /\ wire_to_net' = wire_to_net /\ pip_to_net' = pip_to_net
          /\ (bel[op'.cell] # NullBel /\ err' = "none") =>
                BoundBels(bel_to_cell') = BoundBels(bel_to_cell)]_vars

\* place_cell has moved a placed cell to another bel while another cell
\* is placed
C29_Witness ==
    /\ Called /\ err = "none"
    /\ op.old # NullBel
    /\ bel[op.cell] \notin {NullBel, op.old}
    /\ bel_to_cell[op.old] = NullCell
    /\ \E d \in Cells \ {op.cell} : bel[d] # NullBel

\* C30: when place_cell is called on a placed cell whose bel still passes
\* isValidBelForCell once the cell is unbound, the call does not fail and
\* the bel it chooses costs no more than the old bel, both costs taken
\* against the placement of the other cells.
C30_NoWorse ==
    [][(/\ pc = "autoplace"
        /\ bel[op'.cell] # NullBel
        /\ isValidBelForCell(Unplace(Ctx, op'.cell), op'.cell, bel[op'.cell]))
          => /\ err' = "none"
             /\ bel'[op'.cell] # NullBel
             /\ BelDistance(Unplace(Ctx, op'.cell), op'.cell, bel'[op'.cell])
                   <= BelDistance(Unplace(Ctx, op'.cell), op'.cell,
                                  bel[op'.cell])]_vars

\* place_cell has moved a placed cell from a bel that was still valid for
\* it to a bel of lower cost
C30_Witness ==
    /\ Called /\ err = "none"
    /\ op.old # NullBel
    /\ LET u == Unplace(Ctx, op.cell) IN
       /\ isValidBelForCell(u, op.cell, op.old)
       /\ BelDistance(u, op.cell, bel[op.cell])
             < BelDistance(u, op.cell, op.old)

\* in place_design_heuristic no call of place_cell of the three passes fails
C30_PassesNeverFail == pc = "error" => autoOrder = <<>>

----------------------------------------------------------------------------
(* Properties of the constraint pass on cells pinned to one bel *)

\* the constraint pass of either placer runs or has raised an error
InConstraintPass == pc \in {"constraints", "pd_constraints", "error"}

\* C31: when two cells carry BEL attributes naming the same bel, the
\* constraint pass reaches no state, the state of the error included, in
\* which both cells have that bel in their bel field: the second cell's bel
\* field stays null.
C31_SecondBindRejected ==
    InConstraintPass =>
        \A c, d \in Cells :
            (c < d /\ loadedBEL[c] # NoAttr /\ loadedBEL[c] = loadedBEL[d])
                => /\ ~(bel[c] # NullBel /\ bel[c] = bel[d])
                   /\ bel[d] = NullBel

\* the second bind is rejected and the binding store keeps the first cell
C31_StoreKeepsFirst ==
    InConstraintPass =>
        \A c, d \in Cells :
            (c < d /\ loadedBEL[c] # NoAttr /\ loadedBEL[c] = loadedBEL[d]
             /\ bel[c] # NullBel)
                => bel_to_cell[bel[c]] = c

----------------------------------------------------------------------------
(* getNetinfoRouteDelay: the walk from the sink wire of a net back to its  *)
(* source wire over the wires map the binding calls have built.  The wires *)
(* of the driver's and the user's bel pin come from the architecture and   *)
(* the placement; they are inputs of the call.  op holds the locals.       *)

\* nextpnr.cc 92-98: the call starts; with a null source wire it returns 0
StartWalk(n, src, dst) ==
    [name |-> "getNetinfoRouteDelay", net |-> n, src_wire |-> src,
     cursor |-> dst, seen |-> {}, nullpip |-> FALSE,
     result |-> IF src = NullWire THEN "zero" ELSE "walking"]

\* nextpnr.cc 100-103: the loop is left
LoopEnds(m, st) ==
    \/ st.cursor = NullWire
    \/ st.cursor = st.src_wire
    \/ st.cursor \notin DOMAIN m

\* nextpnr.cc 110-113: the routed delay or the predicted one
WalkResult(st) == IF st.cursor = st.src_wire THEN "routed" ELSE "predicted"

\* nextpnr.cc 104-107: one iteration, the cursor moves to wire next
WalkOn(m, st, next) ==
    [st EXCEPT !.cursor = next,
               !.seen = st.seen \cup {st.cursor},
               !.nullpip = st.nullpip \/ m[st.cursor].pip = NullPip]

\* the wires the cursor can move to: the source wire of the pip recorded
\* for the wire; a wire bound without a pip has the null pip recorded, of
\* which getPipSrcWire is not defined
NextWires(m, st) ==
    IF m[st.cursor].pip = NullPip THEN Wires \cup {NullWire}
    ELSE {getPipSrcWire(m[st.cursor].pip)}

InitDelay == FixedDesign /\ pc = "route"

GetNetinfoRouteDelay(n, src, dst) ==
    /\ pc = "route"
    /\ op' = StartWalk(n, src, dst)
    /\ pc' = IF src = NullWire THEN "walked" ELSE "walk"
    /\ UNCHANGED <<Design, idx, visit_cells, autoplaced, autoOrder, pass, pos,
                   types_used, ti, bi, PlaceVars, RouteVars, LinkVars, err,
                   CtxVars>>

WalkStep ==
    /\ pc = "walk"
    /\ ~LoopEnds(net_wires[op.net], op)
    /\ \E next \in NextWires(net_wires[op.net], op) :
          op' = WalkOn(net_wires[op.net], op, next)
    /\ UNCHANGED <<Design, PlacerVars, PlaceVars, RouteVars, LinkVars, err,
                   CtxVars>>

WalkExit ==
    /\ pc = "walk"
    /\ LoopEnds(net_wires[op.net], op)
    /\ op' = [op EXCEPT !.result = WalkResult(op)]
    /\ pc' = "walked"
    /\ UNCHANGED <<Design, idx, visit_cells, autoplaced, autoOrder, pass, pos,
                   types_used, ti, bi, PlaceVars, RouteVars, LinkVars, err,
                   CtxVars>>

NextDelay ==
    \/ \E w \in Wires, n \in RouteNets, s \in RouteStrengths : BindWire(w, n, s)
    \/ \E p \in Pips, n \in RouteNets, s \in RouteStrengths : BindPip(p, n, s)
    \/ \E w \in Wires : UnbindWire(w)
    \/ \E p \in Pips : UnbindPip(p)
    \/ \E n \in RouteNets, src, dst \in Wires \cup {NullWire} :
          GetNetinfoRouteDelay(n, src, dst)
    \/ WalkStep
    \/ WalkExit

SpecDelay == InitDelay /\ [][NextDelay]_vars

\* the walk has so far gone through wires driven by a pip only
OverPips == pc = "walk" /\ ~op.nullpip

\* C32: on a net whose wires map satisfies I2 the backward walk of
\* getNetinfoRouteDelay stops after finitely many steps: the cursor, which
\* alone decides the next step, never comes back to a wire it has left.
C32_WalkTerminates ==
    (I2 /\ OverPips) => op.cursor \notin op.seen

\* the walk stops at the source wire, at a wire absent from the map or at
\* the null wire
C32_StopsWhereClaimed ==
    (pc = "walked" /\ op.result # "zero") =>
        \/ op.cursor = op.src_wire
        \/ op.cursor = NullWire
        \/ op.cursor \notin DOMAIN net_wires[op.net]

\* the binding calls keep I2 while they build the maps the walk runs on
C32_MapsSatisfyI2 == I2

====
